---- MODULE Spec2Model ----
(***************************************************************************)
(* Client-side token refresh protocol of the React auth template:          *)
(* the axios response interceptor (isRefreshing / failedRequestsQueue /    *)
(* processQueue) of client/src/contexts/AuthProvider.tsx, lines 342-436.   *)
(*                                                                         *)
(* and the AuthProvider above it (checkAuthStatus, login, register), in    *)
(* its two files: the one that calls `api` (lines 1-127) and the one that  *)
(* calls fetch (lines 128-341); the server's routes (unnamed/part_001) are *)
(* the set of replies each can send.                                       *)
(*                                                                         *)
(* One action = one event-loop step: the arrival of a response and every   *)
(* handler and promise continuation (microtask) that runs because of it.   *)
(***************************************************************************)
EXTENDS Integers, Sequences, FiniteSets, TLC

VARIABLES
    calls,                \* every call made through the wrapper `api`, in order of creation
    isRefreshing,         \* module-level flag (line 358)
    failedRequestsQueue,  \* module-level queue of continuations (line 359), as call ids
    pathname,             \* window.location.pathname
    stepTrace,            \* what the last step's try/catch/finally block did: after each
                          \* of its statements, isRefreshing, the length of the queue and
                          \* the value assigned to window.location.href so far ("" if none)
    stepDone,             \* the continuations the last step's processQueue completed, in
                          \* the order of its forEach: the call and "resolve" or "reject"
    user,                 \* AuthProvider state: useState<User | null>(null)
    loading,              \* AuthProvider state: useState<boolean>(true)
    error,                \* AuthProvider state: useState<string | null>(null)
    ops,                  \* the calls of checkAuthStatus / login / register made so far:
                          \* where each is suspended and how it ended
    variant,              \* which of the two AuthProvider files the application mounts
    cookies,              \* the credential cookies the browser holds
    replayed,             \* history: the calls the interceptor has re-issued after a
                          \* refresh (recorded in SpecReplay, empty elsewhere)
    rendered,             \* what the last render of ProtectedRoute returned
    server,               \* which of the two route files the server mounts
    users,                \* the collection 'users' of the database, in insertion order
    env,                  \* the JWT keys set in process.env
    jar,                  \* the value of the accessToken and refreshToken cookies of
                          \* the client that talks to the server
    store,                \* the tokens that client received in a response body
    inserting,            \* register handlers suspended between findOne and insertOne
    served                \* the last request the server answered and its reply

serverVars == <<server, users, env, jar, store, inserting, served>>

vars == <<calls, isRefreshing, failedRequestsQueue, pathname, stepTrace, stepDone,
          user, loading, error, ops, variant, cookies, replayed, rendered,
          serverVars>>

(***************************************************************************)
(* Bounds                                                                  *)
(***************************************************************************)
MaxReqs == 3        \* calls issued by application code (not by the interceptor)
MaxUrlReqs == 2     \* the same, in the specification that draws from every URL
MaxLiveReqs == 2    \* the same, in the specification used for liveness
MaxUsers == 2       \* documents in the collection 'users', insertions under way included
MaxOps == 2         \* calls of the AuthProvider's operations, checkAuthStatus included

(***************************************************************************)
(* URLs are sequences of characters, so that String.prototype.includes is  *)
(* modelled as the substring test it is.                                   *)
(***************************************************************************)
LoginUrl    == <<"/","a","u","t","h","/","l","o","g","i","n">>
RegisterUrl == <<"/","a","u","t","h","/","r","e","g","i","s","t","e","r">>
RefreshUrl  == <<"/","a","u","t","h","/","r","e","f","r","e","s","h">>
LogoutUrl   == <<"/","a","u","t","h","/","l","o","g","o","u","t">>
MeUrl       == <<"/","a","u","t","h","/","m","e">>

\* variant: the refresh endpoint is missing from the list
authEndpoints_WithoutRefresh == <<LoginUrl, RegisterUrl, LogoutUrl>>

\* variant: the login endpoint is missing from the list
authEndpoints_WithoutLogin == <<RegisterUrl, RefreshUrl, LogoutUrl>>

authEndpoints == <<LoginUrl, RegisterUrl, RefreshUrl, LogoutUrl>>

\* the URLs application code calls through `api`: a protected endpoint and an
\* auth endpoint in Spec, every endpoint of the server in SpecUrl
Urls == {MeUrl, LoginUrl}
AllUrls == {MeUrl, LoginUrl, RegisterUrl, LogoutUrl, RefreshUrl}

\* HTTP outcomes of one call; NoResponse is a transport failure (error.response undefined)
NoResponse == 0
AllStatuses == {200, 401, 500, NoResponse}
Statuses == {200, 401}

(***************************************************************************)
(* The server's route handlers, as the set of replies each can send: the   *)
(* status, the JSON body (message, user) and the cookies it sets or        *)
(* clears.  Which reply is sent depends on the request body, the database  *)
(* and the environment variables, which are not modelled.                  *)
(***************************************************************************)
null == "null"
Users == {"u1", "u2"}
Credentials == {"accessToken", "refreshToken"}

NoData == [message |-> null, user |-> null]

Json(status, message, u) ==
    [status |-> status, data |-> [message |-> message, user |-> u],
     set |-> {}, clear |-> {}]

\* app.post('/login')
PostLogin ==
    {Json(400, "Username and password are required", null),
     Json(401, "Invalid credentials", null),
     Json(500, "JWT secret key not configured", null),
     Json(500, "Internal server error", null)}
    \cup {[Json(200, "Login successful", u) EXCEPT !.set = {"accessToken", "refreshToken"}]
             : u \in Users}

\* variant: registration logs the new user in
PostRegister_IssuesCredentials ==
    {Json(400, "Username and password are required", null),
     Json(400, "User already exists", null),
     [Json(201, "User registered successfully", null)
         EXCEPT !.set = {"accessToken", "refreshToken"}],
     Json(500, "Internal server error", null)}

\* app.post('/register')
PostRegister ==
    {Json(400, "Username and password are required", null),
     Json(400, "User already exists", null),
     Json(201, "User registered successfully", null),
     Json(500, "Internal server error", null)}

\* app.get('/me')
GetMe ==
    {Json(401, "No Access Token", null),
     Json(401, "Invalid or expired token", null),
     Json(400, "No Id found in user object, Object malformed", null),
     Json(400, "User not found", null),
     Json(500, "Internal server error", null)}
    \cup {Json(200, null, u) : u \in Users}

\* app.post('/refresh')
PostRefresh ==
    {Json(400, "No refresh token found!", null),
     Json(400, "Malformed refresh token payload", null),
     Json(404, "User not found", null),
     Json(401, "Invalid or expired refresh token", null)}
    \cup {[Json(200, "Access token refreshed!", u) EXCEPT !.set = {"accessToken"}]
             : u \in Users}

\* app.post('/logout')
PostLogout ==
    {[Json(200, "Logged out successfully!", null)
         EXCEPT !.clear = {"accessToken", "refreshToken"}]}

Server(url) ==
    CASE url = LoginUrl -> PostLogin
      [] url = RegisterUrl -> PostRegister
      [] url = MeUrl -> GetMe
      [] url = RefreshUrl -> PostRefresh
      [] url = LogoutUrl -> PostLogout

\* the request or its response is lost: axios rejects with an error whose
\* response is undefined, fetch rejects with a TypeError
NetworkError == [status |-> NoResponse, data |-> NoData, set |-> {}, clear |-> {}]

Replies(url) == Server(url) \cup {NetworkError}

\* axios validateStatus (default) and Response.ok of fetch
ok(status) == status >= 200 /\ status < 300

publicPages == {"/login", "/register", "/", "/forgot-password"}
AllPathnames == publicPages \cup {"/dashboard"}
Pathnames == {"/login", "/dashboard"}

(***************************************************************************)
(* The server as a program: tokens, requests, the state the routes read    *)
(* and write.  A token is what jwt.sign returns, known by the key that     *)
(* signed it ("access": JWT_SECRET_KEY, "refresh": JWT_REFRESH_KEY), its   *)
(* payload's _id and whether its expiresIn has passed; Garbage is any      *)
(* string jwt.verify rejects for its form or signature.                    *)
(***************************************************************************)
\* a token names its kind (the key that signed it), the _id of its payload and
\* whether its expiresIn is still to come; no token, and a string jwt.verify
\* throws on (no token, a forged one, one that has expired)
NoToken == [kind |-> "none", id |-> 0, live |-> FALSE]
Garbage == [kind |-> "garbage", id |-> 0, live |-> FALSE]
Token(kind, id) == [kind |-> kind, id |-> id, live |-> TRUE]

Keys == {"JWT_SECRET_KEY", "JWT_REFRESH_KEY"}

NoTokens == [accessToken |-> NoToken, refreshToken |-> NoToken]
NothingServed == [route |-> "none"]

\* the server is the cookie route file, freshly started on an empty collection and
\* configured, and no client has talked to it
ServerIdle ==
    /\ server = "cookie"
    /\ users = <<>>
    /\ env = Keys
    /\ jar = NoTokens
    /\ store = NoTokens
    /\ inserting = <<>>
    /\ served = NothingServed

\* bcrypt.hash(password, 10) and bcrypt.compare(password, hash)
hash(password) == [bcrypt |-> password]
compare(password, h) == h = hash(password)

\* collection.findOne({ email }): the first document with that email, 0 for null
findOne(coll, email) ==
    IF \E i \in DOMAIN coll : coll[i].email = email
    THEN CHOOSE i \in DOMAIN coll :
            /\ coll[i].email = email
            /\ \A j \in DOMAIN coll : coll[j].email = email => i <= j
    ELSE 0

\* collection.findOne({ _id }): documents are never deleted, _id is the position
findById(coll, id) == IF id \in DOMAIN coll THEN id ELSE 0

\* variant: JWT_SECRET_KEY and JWT_REFRESH_KEY hold the same secret, so that the
\* signature of a token of either kind verifies under either key
verify_OneSecret(token, kind, key, keys) ==
    IF /\ key \in keys
       /\ token \notin {NoToken, Garbage}
       /\ token.live
    THEN token.id
    ELSE 0

\* jwt.verify(token, process.env[key]) returns the payload (here its _id); it throws
\* (0) for a string that is no token, a token signed with another key, a token
\* whose expiresIn has passed, and when the key is not set
\* variant: the expiry of the token is not looked at
verify_IgnoresExpiry(token, kind, key, keys) ==
    IF /\ key \in keys
       /\ token \notin {NoToken, Garbage}
       /\ token.kind = kind
    THEN token.id
    ELSE 0

verify(token, kind, key, keys) ==
    IF /\ key \in keys
       /\ token \notin {NoToken, Garbage}
       /\ token.kind = kind
       /\ token.live
    THEN token.id
    ELSE 0

\* verifyAccessTokenFromCookies / verifyRefreshTokenFromCookies (part_003): the
\* payload, or null (0) when the key is missing or jwt.verify throws
verifyAccessTokenFromCookies(token, keys) == verify(token, "access", "JWT_SECRET_KEY", keys)
verifyRefreshTokenFromCookies(token, keys) == verify(token, "refresh", "JWT_REFRESH_KEY", keys)

\* what a route sends: res.status(..).json({message, user, ...tokens}), res.cookie
\* (cookie: the value set for each cookie, NoToken for a cookie not set) and
\* res.clearCookie (clear)
Send(status, message, u) ==
    [status |-> status, message |-> message, user |-> u,
     cookie |-> NoTokens, clear |-> {}, tokens |-> NoTokens]

InternalServerError == Send(500, "Internal server error", 0)

(***************************************************************************)
(* The routes of the cookie route file (unnamed/part_001).  `fault` says   *)
(* that a call inside the try block throws (the database, bcrypt, jwt).    *)
(***************************************************************************)
\* variant: an email that is not registered is answered differently from a wrong
\* password
CookieLogin_UserNotFound(req, coll, keys, fault) ==
    LET i == findOne(coll, req.body.email)
    IN  IF fault THEN InternalServerError
        ELSE IF req.body.email = "" \/ req.body.password = ""
        THEN Send(400, "Username and password are required", 0)
        ELSE IF i = 0 THEN Send(404, "User not found", 0)
        ELSE IF ~compare(req.body.password, coll[i].password)
        THEN Send(401, "Invalid credentials", 0)
        ELSE IF "JWT_SECRET_KEY" \notin keys
        THEN Send(500, "JWT secret key not configured", 0)
        ELSE IF "JWT_REFRESH_KEY" \notin keys
        THEN Send(500, "JWT secret key not configured", 0)
        ELSE [Send(200, "Login successful", i) EXCEPT
                !.cookie = [accessToken |-> Token("access", i),
                            refreshToken |-> Token("refresh", i)]]

\* app.post('/login')
CookieLogin(req, coll, keys, fault) ==
    LET i == findOne(coll, req.body.email)
    IN  IF fault THEN InternalServerError
        ELSE IF req.body.email = "" \/ req.body.password = ""
        THEN Send(400, "Username and password are required", 0)
        ELSE IF i = 0 THEN Send(401, "Invalid credentials", 0)
        ELSE IF ~compare(req.body.password, coll[i].password)
        THEN Send(401, "Invalid credentials", 0)
        ELSE IF "JWT_SECRET_KEY" \notin keys
        THEN Send(500, "JWT secret key not configured", 0)
        ELSE IF "JWT_REFRESH_KEY" \notin keys
        THEN Send(500, "JWT secret key not configured", 0)
        ELSE [Send(200, "Login successful", i) EXCEPT
                !.cookie = [accessToken |-> Token("access", i),
                            refreshToken |-> Token("refresh", i)]]

\* app.post('/register') up to `await collection.insertOne(newUser)`: the reply, or
\* NoReply when the handler goes on to insert
NoReply == Send(0, "", 0)

CookieRegisterFind(req, coll, fault) ==
    IF fault THEN InternalServerError
    ELSE IF req.body.email = "" \/ req.body.password = ""
    THEN Send(400, "Username and password are required", 0)
    ELSE IF findOne(coll, req.body.email) # 0
    THEN Send(400, "User already exists", 0)
    ELSE NoReply

\* const newUser = { email, password: hashedPassword, name, gender }
NewUser(req) == [email |-> req.body.email, password |-> hash(req.body.password)]

\* app.post('/register') from insertOne on
RegisterInsert(fault) ==
    IF fault THEN InternalServerError
    ELSE Send(201, "User registered successfully", 0)

\* app.get('/me')
CookieMe(req, coll, keys, fault) ==
    LET accessToken == req.cookies.accessToken
        decoded == verifyAccessTokenFromCookies(accessToken, keys)
    IN  IF fault THEN InternalServerError
        ELSE IF accessToken = NoToken THEN Send(401, "No Access Token", 0)
        ELSE IF decoded = 0 THEN Send(401, "Invalid or expired token", 0)
        ELSE IF findById(coll, decoded) = 0 THEN Send(400, "User not found", 0)
        ELSE Send(200, "", decoded)

\* app.post('/refresh'): typeof null is 'object', so the null that
\* verifyRefreshTokenFromCookies returns is caught by `!decoded`
CookieRefresh(req, coll, keys, fault) ==
    LET refreshToken == req.cookies.refreshToken
        decoded == verifyRefreshTokenFromCookies(refreshToken, keys)
    IN  IF fault THEN Send(401, "Invalid or expired refresh token", 0)
        ELSE IF refreshToken = NoToken THEN Send(400, "No refresh token found!", 0)
        ELSE IF ~(Keys \subseteq keys)
        THEN Send(401, "Invalid or expired refresh token", 0)
        ELSE IF decoded = 0 THEN Send(400, "Malformed refresh token payload", 0)
        ELSE IF findById(coll, decoded) = 0 THEN Send(404, "User not found", 0)
        ELSE [Send(200, "Access token refreshed!", decoded) EXCEPT
                !.cookie.accessToken = Token("access", decoded)]

\* variant: only the access cookie is cleared
CookieLogout_KeepsRefresh(req) ==
    [Send(200, "Logged out successfully!", 0) EXCEPT !.clear = {"accessToken"}]

\* app.post('/logout')
CookieLogout(req) ==
    [Send(200, "Logged out successfully!", 0) EXCEPT
        !.clear = {"accessToken", "refreshToken"}]

(***************************************************************************)
(* Pure helpers of the error handler                                       *)
(***************************************************************************)
\* s.includes(t)
includes(s, t) ==
    \E i \in 0..(Len(s) - Len(t)) : SubSeq(s, i + 1, i + Len(t)) = t

isAuthEndpoint(url) ==
    \E k \in DOMAIN authEndpoints : includes(url, authEndpoints[k])

\* variant: the _retry mark is not consulted
shouldRefresh_IgnoresRetry(status, retry, url) ==
    /\ status = 401
    /\ ~isAuthEndpoint(url)

\* variant: every failed response of a protected endpoint is taken for an expiry
shouldRefresh_AnyFailure(status, retry, url) ==
    /\ ~retry
    /\ ~isAuthEndpoint(url)

shouldRefresh(status, retry, url) ==
    /\ status = 401
    /\ ~retry
    /\ ~isAuthEndpoint(url)

(***************************************************************************)
(* The routes of the hybrid route file (unnamed/part_002).  Header values  *)
(* compared as a whole are strings ("" for a header that is absent); the   *)
(* User-Agent, which is searched, is a sequence of characters.             *)
(***************************************************************************)
Mobile      == <<"M","o","b","i","l","e">>
ReactNative == <<"R","e","a","c","t"," ","N","a","t","i","v","e">>
Expo        == <<"E","x","p","o">>
Flutter     == <<"F","l","u","t","t","e","r">>

\* variant: the User-Agent is consulted before the X-Client-Type header
getClientType_UserAgentFirst(req) ==
    IF \/ includes(req.userAgent, Mobile)
       \/ includes(req.userAgent, ReactNative)
       \/ includes(req.userAgent, Expo)
       \/ includes(req.userAgent, Flutter)
    THEN "mobile"
    ELSE IF req.clientType = "mobile" \/ req.clientType = "web"
    THEN req.clientType
    ELSE "web"

getClientType(req) ==
    IF req.clientType = "mobile" \/ req.clientType = "web"
    THEN req.clientType
    ELSE IF \/ includes(req.userAgent, Mobile)
            \/ includes(req.userAgent, ReactNative)
            \/ includes(req.userAgent, Expo)
            \/ includes(req.userAgent, Flutter)
    THEN "mobile"
    ELSE "web"

\* variant: the cookies are read for every client, the headers only as a fallback
extractTokens_CookiesFirst(req) ==
    IF getClientType(req) = "web" \/ req.cookies # NoTokens
    THEN req.cookies
    ELSE [accessToken |-> req.authorization, refreshToken |-> req.xRefreshToken]

\* authHeader?.replace('Bearer ', '') is modelled by its result: the token the
\* Authorization header carries, NoToken when it is absent or carries none
extractTokens(req) ==
    IF getClientType(req) = "web"
    THEN req.cookies
    ELSE [accessToken |-> req.authorization, refreshToken |-> req.xRefreshToken]

\* variant: the tokens are sent in the body for every client
sendTokens_AlsoInBody(res, accessToken, refreshToken, clientType) ==
    IF clientType = "web"
    THEN [res EXCEPT !.cookie = [accessToken |-> accessToken,
                                 refreshToken |-> refreshToken],
                     !.tokens = [accessToken |-> accessToken,
                                 refreshToken |-> refreshToken]]
    ELSE [res EXCEPT !.tokens = [accessToken |-> accessToken,
                                 refreshToken |-> refreshToken]]

\* sendTokens: res.cookie twice for web ({tokens: 'sent_as_cookies'} in the body),
\* the two tokens in the body for mobile
sendTokens(res, accessToken, refreshToken, clientType) ==
    IF clientType = "web"
    THEN [res EXCEPT !.cookie = [accessToken |-> accessToken,
                                 refreshToken |-> refreshToken]]
    ELSE [res EXCEPT !.tokens = [accessToken |-> accessToken,
                                 refreshToken |-> refreshToken]]

\* app.post('/login')
HybridLogin(req, coll, keys, fault) ==
    LET i == findOne(coll, req.body.email)
    IN  IF fault THEN InternalServerError
        ELSE IF req.body.email = "" \/ req.body.password = ""
        THEN Send(400, "Email and password are required", 0)
        ELSE IF i = 0 THEN Send(401, "Invalid credentials", 0)
        ELSE IF ~compare(req.body.password, coll[i].password)
        THEN Send(401, "Invalid credentials", 0)
        ELSE IF ~(Keys \subseteq keys)
        THEN Send(500, "JWT secret keys not configured", 0)
        ELSE sendTokens(Send(200, "Login successful", i),
                        Token("access", i), Token("refresh", i), getClientType(req))

\* app.post('/register') up to `await collection.insertOne(newUser)`
HybridRegisterFind(req, coll, fault) ==
    IF fault THEN InternalServerError
    ELSE IF req.body.email = "" \/ req.body.password = ""
    THEN Send(400, "Email and password are required", 0)
    ELSE IF findOne(coll, req.body.email) # 0
    THEN Send(400, "User already exists", 0)
    ELSE NoReply

\* app.get('/me'): jwt.verify in its own try block
HybridMe(req, coll, keys, fault) ==
    LET accessToken == extractTokens(req).accessToken
        decoded == verify(accessToken, "access", "JWT_SECRET_KEY", keys)
    IN  IF fault THEN InternalServerError
        ELSE IF accessToken = NoToken THEN Send(401, "No access token provided", 0)
        ELSE IF decoded = 0 THEN Send(401, "Invalid or expired access token", 0)
        ELSE IF findById(coll, decoded) = 0 THEN Send(400, "User not found", 0)
        ELSE Send(200, "", decoded)

\* app.post('/refresh'): jwt.verify in its own try block
HybridRefresh(req, coll, keys, fault) ==
    LET refreshToken == extractTokens(req).refreshToken
        decoded == verify(refreshToken, "refresh", "JWT_REFRESH_KEY", keys)
    IN  IF fault THEN Send(401, "Invalid or expired refresh token", 0)
        ELSE IF refreshToken = NoToken THEN Send(400, "No refresh token provided", 0)
        ELSE IF ~(Keys \subseteq keys)
        THEN Send(401, "Invalid or expired refresh token", 0)
        ELSE IF decoded = 0 THEN Send(401, "Invalid or expired refresh token", 0)
        ELSE IF findById(coll, decoded) = 0 THEN Send(404, "User not found", 0)
        ELSE sendTokens(Send(200, "Access token refreshed!", decoded),
                        Token("access", decoded), refreshToken, getClientType(req))

\* app.post('/logout')
HybridLogout(req) ==
    IF getClientType(req) = "web"
    THEN [Send(200, "Logged out successfully!", 0) EXCEPT
            !.clear = {"accessToken", "refreshToken"}]
    ELSE Send(200, "Logged out successfully!", 0)

(***************************************************************************)
(* Outcomes handed to whoever awaits a call.  `from` identifies the call   *)
(* whose HTTP exchange produced the response or error object, so that      *)
(* "the same error value" is expressible.                                  *)
(***************************************************************************)
NoOutcome == [kind |-> "none", status |-> 0, from |-> 0]
Response(c, s) == [kind |-> "response", status |-> s, from |-> c]
Error(c, s) == [kind |-> "error", status |-> s, from |-> c]

(***************************************************************************)
(* The handlers are written as functions on a record of the program state  *)
(* and composed in the order of the statements of the source.              *)
(***************************************************************************)
State ==
    [calls |-> calls, isRefreshing |-> isRefreshing, queue |-> failedRequestsQueue,
     pathname |-> pathname, href |-> "", trace |-> <<>>, done |-> <<>>,
     user |-> user, loading |-> loading, error |-> error, ops |-> ops,
     cookies |-> cookies, reply |-> NetworkError]

Snap(S, at) ==
    [S EXCEPT !.trace = Append(@, [at |-> at, isRefreshing |-> S.isRefreshing,
                                   queued |-> Len(S.queue), href |-> S.href])]

\* promise.resolve() / promise.reject(error) of the continuation of call c
Done(S, c, how) == [S EXCEPT !.done = Append(@, [call |-> c, how |-> how])]

\* api(config): a call is (re-)issued through the wrapper
api(S, c) == [S EXCEPT !.calls[c].st = "inflight"]

\* api.post(url) / api.get(url): a new call; parent = 0 for application code,
\* parent = c for the refresh call awaited by the error handler of call c
NewCall(S, url, parent) ==
    [S EXCEPT !.calls = Append(@, [url |-> url, retry |-> FALSE, parent |-> parent,
                                   st |-> "inflight", out |-> NoOutcome])]

\* variant: the queue is not reset after the forEach
processQueue_KeepsQueue(S) == S

\* failedRequestsQueue = []  (the forEach is ResolveAll / RejectAll below)
processQueue(S) == [S EXCEPT !.queue = <<>>]

\* finally { isRefreshing = false }
Finally(S) == [S EXCEPT !.isRefreshing = FALSE]

\* variant: the redirect is not limited to non-public pages
Redirect_Always(S) == [S EXCEPT !.pathname = "/login", !.href = "/login"]

\* if (!publicPages.includes(window.location.pathname)) window.location.href = '/login'
Redirect(S) ==
    IF S.pathname \notin publicPages
    THEN [S EXCEPT !.pathname = "/login", !.href = "/login"]
    ELSE S

\* variant: isRefreshing is not set before the refresh call is awaited
StartRefresh_FlagNotSet(S, c) ==
    NewCall([S EXCEPT !.calls[c].retry = TRUE, !.calls[c].st = "awaiting"],
            RefreshUrl, c)

\* variant: the request is not marked _retry
StartRefresh_NotMarked(S, c) ==
    NewCall([S EXCEPT !.calls[c].st = "awaiting", !.isRefreshing = TRUE],
            RefreshUrl, c)

\* originalRequest._retry = true; isRefreshing = true; api.post('/auth/refresh')
StartRefresh(S, c) ==
    NewCall([S EXCEPT !.calls[c].retry = TRUE,
                      !.calls[c].st = "awaiting",
                      !.isRefreshing = TRUE],
            RefreshUrl, c)

\* new Promise((resolve, reject) => failedRequestsQueue.push({resolve, reject}))
Enqueue(S, c) ==
    [S EXCEPT !.queue = Append(@, c), !.calls[c].st = "queued"]

(***************************************************************************)
(* AuthProvider, the file that calls the server through `api`.  An         *)
(* operation runs up to its await in the step that calls it and resumes,   *)
(* with the outcome of the awaited call, in the step that settles it.      *)
(* S.reply is the reply of the exchange the step handles: response.data    *)
(* of a response and error.response.data of an error are its data.         *)
(***************************************************************************)
Op(name, c, pc) ==
    [op |-> name, call |-> c, pc |-> pc, result |-> "pending", message |-> null]

\* the operation returns
Return(S, o) == [S EXCEPT !.ops[o].pc = "done", !.ops[o].result = "returned"]

\* throw new Error(errorMessage)
Throw(S, o, errorMessage) ==
    [S EXCEPT !.ops[o].pc = "done", !.ops[o].result = "threw",
              !.ops[o].message = errorMessage]

\* variant: the message of the server is not read
MessageOr_OnlyFallback(S, fallback) == fallback

\* error?.response?.data?.message || fallback
MessageOr(S, fallback) ==
    IF S.reply.data.message # null THEN S.reply.data.message ELSE fallback

\* variant: the catch block records the error and leaves the user
checkAuthStatus_KeepsUser(S, o, out) ==
    IF out.kind = "response" /\ S.reply.data.user # null
    THEN Return([S EXCEPT !.user = S.reply.data.user, !.error = null,
                          !.loading = FALSE], o)
    ELSE Return([S EXCEPT !.error = "Authentication check failed",
                          !.loading = FALSE], o)

\* checkAuthStatus, lines 23-42, after `await api.get('/auth/me')`
checkAuthStatus(S, o, out) ==
    IF out.kind = "response" /\ S.reply.data.user # null
    THEN Return([S EXCEPT !.user = S.reply.data.user, !.error = null,
                          !.loading = FALSE], o)
    ELSE Return([S EXCEPT !.user = null, !.error = "Authentication check failed",
                          !.loading = FALSE], o)

\* variant: a failed login also signs the user out
login_ClearsUserOnFailure(S, o, out) ==
    IF out.kind = "response" /\ S.reply.data.user # null
    THEN Return([S EXCEPT !.user = S.reply.data.user, !.loading = FALSE,
                          !.error = null], o)
    ELSE LET errorMessage == MessageOr(S, "Login failed")
         IN  Throw([S EXCEPT !.user = null, !.error = errorMessage, !.loading = FALSE],
                   o, errorMessage)

\* login, lines 50-70, after `await api.post('/auth/login', ...)`
login(S, o, out) ==
    IF out.kind = "response" /\ S.reply.data.user # null
    THEN Return([S EXCEPT !.user = S.reply.data.user, !.loading = FALSE,
                          !.error = null], o)
    ELSE LET errorMessage == IF out.kind = "error"
                              THEN MessageOr(S, "Login failed")
                              ELSE "Login failed"
         IN  Throw([S EXCEPT !.error = errorMessage, !.loading = FALSE],
                   o, errorMessage)

\* register, lines 78-87, after `await api.post('/auth/register', ...)`
register(S, o, out) ==
    IF out.kind = "response"
    THEN Return([S EXCEPT !.loading = FALSE, !.error = null], o)
    ELSE LET errorMessage == MessageOr(S, "Registration failed")
         IN  Throw([S EXCEPT !.error = errorMessage, !.loading = FALSE],
                   o, errorMessage)

\* variant: the local state is cleared only when the server confirmed the logout
logout_OnlyOnSuccess(S, o, out) ==
    IF out.kind = "response"
    THEN Return([S EXCEPT !.user = null, !.loading = FALSE, !.error = null,
                          !.pathname = "/login"], o)
    ELSE Throw(S, o, "Logout failed")

\* logout, lines 92-101, after `await api.post('/auth/logout')`: the catch block
\* only logs, the finally block clears the state and calls navigate('/login')
logout(S, o, out) ==
    Return([S EXCEPT !.user = null, !.loading = FALSE, !.error = null,
                     !.pathname = "/login"], o)

(***************************************************************************)
(* AuthProvider, the file that calls the server with fetch.  An operation  *)
(* is suspended on one fetch at a time, named by its pc: "me", "refresh"   *)
(* and "me2" (the second fetch of /auth/me, in refreshAccessToken) for     *)
(* checkAuthStatus, "login" for login.                                     *)
(***************************************************************************)
FetchUrl(pc) ==
    CASE pc = "me" -> MeUrl
      [] pc = "refresh" -> RefreshUrl
      [] pc = "me2" -> MeUrl
      [] pc = "login" -> LoginUrl

\* what fetch() rejects with when the network fails (the browser's text)
FailedToFetch == "Failed to fetch"

\* refreshAccessToken, lines 181-223
refreshAccessToken(S, o, r) ==
    IF S.ops[o].pc = "refresh" /\ ok(r.status)
    THEN [S EXCEPT !.ops[o].pc = "me2"]
    ELSE IF S.ops[o].pc = "me2" /\ ok(r.status) /\ r.data.user # null
    THEN Return([S EXCEPT !.user = r.data.user, !.loading = FALSE, !.error = null], o)
    ELSE Return([S EXCEPT !.loading = FALSE], o)

\* checkAuthStatus, lines 148-179
checkAuthStatus_fetch(S, o, r) ==
    IF S.ops[o].pc # "me" THEN refreshAccessToken(S, o, r)
    ELSE IF ok(r.status) /\ r.data.user # null
    THEN Return([S EXCEPT !.user = r.data.user, !.loading = FALSE, !.error = null], o)
    ELSE IF r.status = 401
    THEN [S EXCEPT !.ops[o].pc = "refresh"]
    ELSE Return([S EXCEPT !.loading = FALSE], o)

\* login, lines 239-262, after `await fetch(.../auth/login)`
login_fetch(S, o, r) ==
    IF ok(r.status) /\ r.data.user # null
    THEN Return([S EXCEPT !.user = r.data.user, !.loading = FALSE, !.error = null], o)
    ELSE LET errorMessage ==
                 IF r.status = NoResponse THEN FailedToFetch
                 ELSE IF r.data.message # null THEN r.data.message
                 ELSE "Login failed"
         IN  Throw([S EXCEPT !.error = errorMessage, !.loading = FALSE],
                   o, errorMessage)

\* the operations suspended on call c
Awaiting(S, c) == {o \in DOMAIN S.ops : S.ops[o].call = c /\ S.ops[o].pc = "await"}

\* the promise of call c settles: the operation awaiting it, if any, resumes
Resume(S, c, out) ==
    IF Awaiting(S, c) = {} THEN S
    ELSE LET o == CHOOSE o \in Awaiting(S, c) : TRUE
         IN  CASE S.ops[o].op = "checkAuthStatus" -> checkAuthStatus(S, o, out)
               [] S.ops[o].op = "login" -> login(S, o, out)
               [] S.ops[o].op = "register" -> register(S, o, out)
               [] S.ops[o].op = "logout" -> logout(S, o, out)

RECURSIVE Settle(_, _, _)
RECURSIVE RejectAll(_, _, _)
RECURSIVE ResolveAll(_, _)
RECURSIVE RefreshSucceeded(_, _)
RECURSIVE RefreshFailed(_, _, _)
RECURSIVE ResolveAll_LastFirst(_, _)

\* variant: the continuations are dropped without being resolved
ResolveAll_Dropped(S, q) == S

\* variant: the queue is emptied from its tail (pop) instead of its head
ResolveAll_LastFirst(S, q) ==
    IF q = <<>> THEN S
    ELSE ResolveAll_LastFirst(api(Done(S, q[Len(q)], "resolve"), q[Len(q)]),
                              SubSeq(q, 1, Len(q) - 1))

\* promise.resolve() for each queued continuation, in queue order; the
\* continuation is .then(() => api(originalRequest))
ResolveAll(S, q) ==
    IF q = <<>> THEN S
    ELSE ResolveAll(api(Done(S, Head(q), "resolve"), Head(q)), Tail(q))

\* variant: processQueue() is called without the error in the catch block
RejectAll_ResolvesInstead(S, q, err) == ResolveAll(S, q)

\* variant: only the first continuation of the queue is rejected
RejectAll_OnlyFirst(S, q, err) ==
    IF q = <<>> THEN S ELSE Settle(Done(S, Head(q), "reject"), Head(q), err)

\* promise.reject(error) for each queued continuation, in queue order; the
\* continuation is .catch(err => Promise.reject(err))
RejectAll(S, q, err) ==
    IF q = <<>> THEN S
    ELSE RejectAll(Settle(Done(S, Head(q), "reject"), Head(q), err), Tail(q), err)

\* variant: the triggering request is not re-issued
RefreshSucceeded_NoTriggerReplay(S, c) ==
    LET q  == S.queue
        S0 == Snap(S, "await")
        S1 == Snap(processQueue(S0), "processQueue")
        S3 == Snap(Finally(S1), "finally")
    IN  ResolveAll(S3, q)

\* try { await api.post('/auth/refresh'); processQueue(); return api(originalRequest) }
\* finally { isRefreshing = false }, then the microtasks of the resolved continuations
RefreshSucceeded(S, c) ==
    LET q  == S.queue
        S0 == Snap(S, "await")
        S1 == Snap(processQueue(S0), "processQueue")
        S2 == Snap(api(S1, c), "api")
        S3 == Snap(Finally(S2), "finally")
    IN  ResolveAll(S3, q)

\* variant: isRefreshing is reset at the head of the catch block, before the drain
RefreshFailed_ResetFirst(S, c, err) ==
    LET q  == S.queue
        S0 == Snap(S, "await")
        S1 == Snap(Finally(S0), "finally")
        S2 == Snap(processQueue(S1), "processQueue")
        S3 == Snap(Redirect(S2), "redirect")
    IN  Settle(RejectAll(S3, q, err), c, err)

\* variant: the catch block drains and redirects only for an error that carries a response
RefreshFailed_OnlyWithResponse(S, c, err) ==
    LET q  == S.queue
        S0 == Snap(S, "await")
        S1 == Snap(processQueue(S0), "processQueue")
        S2 == Snap(Redirect(S1), "redirect")
        S3 == Snap(Finally(S2), "finally")
    IN  IF err.status = NoResponse
        THEN Settle(Snap(Finally(S0), "finally"), c, err)
        ELSE Settle(RejectAll(S3, q, err), c, err)

\* catch (refreshError) { processQueue(refreshError); redirect; return Promise.reject(refreshError) }
\* finally { isRefreshing = false }, then the microtasks of the rejected continuations
RefreshFailed(S, c, err) ==
    LET q  == S.queue
        S0 == Snap(S, "await")
        S1 == Snap(processQueue(S0), "processQueue")
        S2 == Snap(Redirect(S1), "redirect")
        S3 == Snap(Finally(S2), "finally")
    IN  Settle(RejectAll(S3, q, err), c, err)

\* the promise of call c settles with `out`; when c is the refresh call awaited by
\* the handler of call `parent`, that handler resumes in the same step
Settle(S, c, out) ==
    LET S1 == [S EXCEPT !.calls[c].st = "settled", !.calls[c].out = out]
        p  == S.calls[c].parent
    IN  IF p = 0 THEN Resume(S1, c, out)
        ELSE IF out.kind = "response" THEN RefreshSucceeded(S1, p)
        ELSE RefreshFailed(S1, p, out)

\* variant: the handler never takes the queue branch
ErrorHandler_NoQueueBranch(S, c, status) ==
    LET originalRequest == S.calls[c]
    IN  IF ~shouldRefresh(status, originalRequest.retry, originalRequest.url)
        THEN Settle(S, c, Error(c, status))
        ELSE StartRefresh(S, c)

\* variant: the failure of a replay is handled like a failure of the refresh
\* (`return await api(originalRequest)` inside the try block)
ErrorHandler_ReplayCaught(S, c, status) ==
    LET originalRequest == S.calls[c]
    IN  IF ~shouldRefresh(status, originalRequest.retry, originalRequest.url)
        THEN IF originalRequest.retry
             THEN Settle(Redirect(S), c, Error(c, status))
             ELSE Settle(S, c, Error(c, status))
        ELSE IF S.isRefreshing
        THEN Enqueue(S, c)
        ELSE StartRefresh(S, c)

\* the error handler of the response interceptor
ErrorHandler(S, c, status) ==
    LET originalRequest == S.calls[c]
    IN  IF ~shouldRefresh(status, originalRequest.retry, originalRequest.url)
        THEN Settle(S, c, Error(c, status))
        ELSE IF S.isRefreshing
        THEN Enqueue(S, c)
        ELSE StartRefresh(S, c)

\* the response interceptor: success handler and error handler
Interceptor(S, c, status) ==
    IF ok(status) THEN Settle(S, c, Response(c, status))
    ELSE ErrorHandler(S, c, status)

(***************************************************************************)
(* State machine                                                           *)
(***************************************************************************)
Assign(S) ==
    /\ calls' = S.calls
    /\ isRefreshing' = S.isRefreshing
    /\ failedRequestsQueue' = S.queue
    /\ pathname' = S.pathname
    /\ stepTrace' = S.trace
    /\ stepDone' = S.done
    /\ user' = S.user
    /\ loading' = S.loading
    /\ error' = S.error
    /\ ops' = S.ops
    /\ cookies' = S.cookies
    /\ variant' = variant
    /\ UNCHANGED serverVars

Commit(S) == Assign(S) /\ UNCHANGED <<replayed, rendered>>

Callers == {c \in DOMAIN calls : calls[c].parent = 0}
RefreshCalls == {c \in DOMAIN calls : calls[c].parent # 0}

(***************************************************************************)
(* pages/AuthPages/ProtectedRoute.tsx.  The component is a function of the *)
(* context value and of the location; what it returns is an element: the   *)
(* spinner, a <Navigate>, or the fragment holding its children.            *)
(***************************************************************************)
\* nothing rendered yet
NotRendered == [element |-> "none", to |-> "", from |-> "", replace |-> FALSE]

\* `!!user` (AuthProvider.tsx line 110 and line 323): null is falsy, a user
\* object is truthy
isAuthenticated(u) == ~(u = null)

\* the value of the context, as useAuth() returns it
useAuth(S) ==
    [user |-> S.user, loading |-> S.loading,
     isAuthenticated |-> isAuthenticated(S.user)]

\* a variant that does not wait for the check of the session: it tests
\* isAuthenticated alone
ProtectedRoute_NotWaiting(auth, location) ==
    IF ~auth.isAuthenticated
    THEN [element |-> "Navigate", to |-> "/login", from |-> location, replace |-> TRUE]
    ELSE [element |-> "children", to |-> "", from |-> "", replace |-> FALSE]

\* ProtectedRoute({ children, requiredRole }): requiredRole is not read
ProtectedRoute(auth, location) ==
    IF auth.loading
    THEN [element |-> "Loader2", to |-> "", from |-> "", replace |-> FALSE]
    ELSE IF ~auth.isAuthenticated /\ ~auth.loading
    THEN [element |-> "Navigate", to |-> "/login", from |-> location, replace |-> TRUE]
    ELSE [element |-> "children", to |-> "", from |-> "", replace |-> FALSE]

\* useState(null), useState(true), useState(null); no operation called yet
InitAuthProvider ==
    /\ user = null
    /\ loading = TRUE
    /\ error = null
    /\ ops = <<>>

Init ==
    /\ calls = <<>>
    /\ isRefreshing = FALSE
    /\ failedRequestsQueue = <<>>
    /\ pathname \in Pathnames
    /\ stepTrace = <<>>
    /\ stepDone = <<>>
    /\ InitAuthProvider
    /\ replayed = {}
    /\ rendered = NotRendered
    /\ variant = "axios"
    /\ cookies = {}
    /\ ServerIdle

\* application code calls api.get(url) / api.post(url)
RequestUpTo(n, url) ==
    /\ Cardinality(Callers) < n
    /\ Commit(NewCall(State, url, 0))

Request(url) == RequestUpTo(MaxReqs, url)

\* the response (or transport failure) of an in-flight call arrives
Respond(c, status) ==
    /\ c \in DOMAIN calls
    /\ calls[c].st = "inflight"
    /\ Commit(Interceptor(State, c, status))

\* an external caller's call / the refresh call of the interceptor gets its response
RespondCaller(c, status) == calls[c].parent = 0 /\ Respond(c, status)
RespondRefresh(c, status) == calls[c].parent # 0 /\ Respond(c, status)

\* the router changes the page (navigate(...), <Navigate/>, links)
Navigate(p) ==
    /\ pathname # p
    /\ pathname' = p
    /\ stepTrace' = <<>>
    /\ stepDone' = <<>>
    /\ UNCHANGED <<calls, isRefreshing, failedRequestsQueue>>
    /\ UNCHANGED <<user, loading, error, ops, variant, cookies, replayed, rendered>>
    /\ UNCHANGED serverVars

(***************************************************************************)
(* The application as a whole: the AuthProvider under the router, its      *)
(* operations called by the pages, the server replying to each call.       *)
(***************************************************************************)
\* the browser receives reply r: its cookies are stored before any handler runs
Receive(S, r) ==
    [S EXCEPT !.reply = r, !.cookies = (@ \ r.clear) \cup r.set]

Suspend(S, name, c, pc) == [S EXCEPT !.ops = Append(@, Op(name, c, pc))]

\* useEffect(() => { checkAuthStatus(); }, []) up to `await api.get('/auth/me')`
CheckAuthStatus ==
    /\ variant = "axios"
    /\ ops = <<>>
    /\ LET S1 == NewCall(State, MeUrl, 0)
       IN  Commit(Suspend(S1, "checkAuthStatus", Len(S1.calls), "await"))

\* variant: loading is not set before the call
Login_WithoutLoading ==
    /\ variant = "axios"
    /\ ops # <<>>
    /\ Len(ops) < MaxOps
    /\ LET S1 == NewCall([State EXCEPT !.error = null], LoginUrl, 0)
       IN  Commit(Suspend(S1, "login", Len(S1.calls), "await"))

\* login(email, password) up to `await api.post('/auth/login', ...)`
Login ==
    /\ variant = "axios"
    /\ ops # <<>>
    /\ Len(ops) < MaxOps
    /\ LET S1 == NewCall([State EXCEPT !.loading = TRUE, !.error = null], LoginUrl, 0)
       IN  Commit(Suspend(S1, "login", Len(S1.calls), "await"))

\* register(email, password, name) up to `await api.post('/auth/register', ...)`
Register ==
    /\ variant = "axios"
    /\ ops # <<>>
    /\ Len(ops) < MaxOps
    /\ LET S1 == NewCall([State EXCEPT !.loading = TRUE, !.error = null], RegisterUrl, 0)
       IN  Commit(Suspend(S1, "register", Len(S1.calls), "await"))

\* logout() up to `await api.post('/auth/logout')`
Logout ==
    /\ variant = "axios"
    /\ ops # <<>>
    /\ Len(ops) < MaxOps
    /\ LET S1 == NewCall(State, LogoutUrl, 0)
       IN  Commit(Suspend(S1, "logout", Len(S1.calls), "await"))

\* the server's reply to call c, or a network failure, reaches the interceptor
Reply(c, r) ==
    /\ variant = "axios"
    /\ c \in DOMAIN calls
    /\ calls[c].st = "inflight"
    /\ r \in Replies(calls[c].url)
    /\ Commit(Interceptor(Receive(State, r), c, r.status))

\* useEffect(() => { checkAuthStatus(); }, []) up to `await fetch(.../auth/me)`
CheckAuthStatusFetch ==
    /\ variant = "fetch"
    /\ ops = <<>>
    /\ Commit(Suspend(State, "checkAuthStatus", 0, "me"))

\* login(email, password) up to `await fetch(.../auth/login)`
LoginFetch ==
    /\ variant = "fetch"
    /\ ops # <<>>
    /\ Len(ops) < MaxOps
    /\ Commit(Suspend([State EXCEPT !.loading = TRUE, !.error = null], "login", 0, "login"))

\* the server's reply to the fetch operation o is suspended on, or a network failure
ReplyFetch(o, r) ==
    /\ variant = "fetch"
    /\ o \in DOMAIN ops
    /\ ops[o].pc \notin {"await", "done"}
    /\ r \in Replies(FetchUrl(ops[o].pc))
    /\ Commit(IF ops[o].op = "login"
              THEN login_fetch(Receive(State, r), o, r)
              ELSE checkAuthStatus_fetch(Receive(State, r), o, r))

AllReplies == UNION {Replies(url) : url \in AllUrls}

InitStore ==
    /\ calls = <<>>
    /\ isRefreshing = FALSE
    /\ failedRequestsQueue = <<>>
    /\ pathname \in Pathnames
    /\ stepTrace = <<>>
    /\ stepDone = <<>>
    /\ InitAuthProvider
    /\ replayed = {}
    /\ rendered = NotRendered
    /\ variant \in {"axios", "fetch"}
    /\ cookies \in {{}, Credentials}
    /\ ServerIdle

NextStore ==
    \/ CheckAuthStatus
    \/ Login
    \/ Register
    \/ Logout
    \/ \E c \in DOMAIN calls, r \in AllReplies : Reply(c, r)
    \/ CheckAuthStatusFetch
    \/ LoginFetch
    \/ \E o \in DOMAIN ops, r \in AllReplies : ReplyFetch(o, r)

SpecStore == InitStore /\ [][NextStore]_vars

(***************************************************************************)
(* A protected page of the application: ProtectedRoute is rendered again   *)
(* whenever the state of the provider or the location changed, between the *)
(* steps of the provider's operations.  <Navigate> navigates when mounted. *)
(***************************************************************************)
Render ==
    LET el == ProtectedRoute(useAuth(State), pathname) IN
    /\ rendered' = el
    /\ pathname' = IF el.element = "Navigate" THEN el.to ELSE pathname
    /\ UNCHANGED <<calls, isRefreshing, failedRequestsQueue, stepTrace, stepDone,
                   user, loading, error, ops, variant, cookies, replayed, serverVars>>

InitRoute ==
    /\ calls = <<>>
    /\ isRefreshing = FALSE
    /\ failedRequestsQueue = <<>>
    /\ pathname \in Pathnames
    /\ stepTrace = <<>>
    /\ stepDone = <<>>
    /\ InitAuthProvider
    /\ replayed = {}
    /\ rendered = NotRendered
    /\ variant = "axios"
    /\ cookies \in {{}, Credentials}
    /\ ServerIdle

NextRoute ==
    \/ CheckAuthStatus
    \/ Login
    \/ Logout
    \/ \E c \in DOMAIN calls, r \in AllReplies : Reply(c, r)
    \/ Render

SpecRoute == InitRoute /\ [][NextRoute]_vars

(***************************************************************************)
(* The server and one client of it.  The client sends any request: the     *)
(* browser attaches the cookies of the jar, the headers are what the       *)
(* client chooses (a token it was given in a body, or anything else).  A   *)
(* route is one step, except register, whose check and insertion are two   *)
(* database calls between which other requests are served.                 *)
(***************************************************************************)
Emails == {"a@b.com"}
Passwords == {"right", "wrong"}
ClientTypes == {"", "web", "mobile"}
UserAgents == {<<>>, Expo}

Bodies == [email : Emails \cup {""}, password : Passwords \cup {""}]

Requests ==
    [clientType : ClientTypes,
     userAgent : UserAgents,
     cookies : {jar},
     authorization : {NoToken, Garbage, store.accessToken},
     xRefreshToken : {NoToken, Garbage, store.refreshToken},
     body : Bodies]

\* the requests that differ in what /me, /refresh and /logout read, and in what
\* /login and /register read
HeaderRequests == {req \in Requests : req.body = [email |-> "", password |-> ""]}
FormRequests ==
    {req \in Requests : req.authorization = NoToken /\ req.xRefreshToken = NoToken}

\* the requests a client makes of each route: it sets what the route reads
NoBody == [email |-> "", password |-> ""]

Req(clientType, authorization, xRefreshToken, body) ==
    [clientType |-> clientType, userAgent |-> <<>>, cookies |-> jar,
     authorization |-> authorization, xRefreshToken |-> xRefreshToken, body |-> body]

BodyRequests == {Req(ct, NoToken, NoToken, b) : ct \in {"", "mobile"}, b \in Bodies}
MeRequests ==
    {Req(ct, a, NoToken, NoBody) :
        ct \in {"", "mobile"}, a \in {NoToken, Garbage, store.accessToken}}
RefreshRequests ==
    {Req(ct, NoToken, x, NoBody) :
        ct \in {"", "mobile"}, x \in {NoToken, Garbage, store.refreshToken}}
LogoutRequests == {Req(ct, NoToken, NoToken, NoBody) : ct \in {"", "mobile"}}

\* the client type the mounted route file acts on: the cookie file knows only cookies
ClientOf(req) == IF server = "hybrid" THEN getClientType(req) ELSE "web"

\* the client receives the reply: Set-Cookie headers update the jar, tokens in the
\* body are kept by the application (register does not look at the client type:
\* "any")
Deliver(route, client, res) ==
    /\ jar' = [name \in DOMAIN jar |->
                 IF res.cookie[name] # NoToken THEN res.cookie[name]
                 ELSE IF name \in res.clear THEN NoToken
                 ELSE jar[name]]
    /\ store' = IF res.tokens # NoTokens THEN res.tokens ELSE store
    /\ served' = [route |-> route, client |-> client, status |-> res.status]

ClientUnchanged ==
    UNCHANGED <<calls, isRefreshing, failedRequestsQueue, pathname, stepTrace, stepDone,
                user, loading, error, ops, variant, cookies, replayed, rendered>>

ServeLogin(req, fault) ==
    /\ Deliver("login", ClientOf(req),
               IF server = "hybrid" THEN HybridLogin(req, users, env, fault)
               ELSE CookieLogin(req, users, env, fault))
    /\ UNCHANGED <<server, users, env, inserting>>
    /\ ClientUnchanged

ServeMe(req, fault) ==
    /\ Deliver("me", ClientOf(req),
               IF server = "hybrid" THEN HybridMe(req, users, env, fault)
               ELSE CookieMe(req, users, env, fault))
    /\ UNCHANGED <<server, users, env, inserting>>
    /\ ClientUnchanged

ServeRefresh(req, fault) ==
    /\ Deliver("refresh", ClientOf(req),
               IF server = "hybrid" THEN HybridRefresh(req, users, env, fault)
               ELSE CookieRefresh(req, users, env, fault))
    /\ UNCHANGED <<server, users, env, inserting>>
    /\ ClientUnchanged

ServeLogout(req) ==
    /\ Deliver("logout", ClientOf(req),
               IF server = "hybrid" THEN HybridLogout(req) ELSE CookieLogout(req))
    /\ UNCHANGED <<server, users, env, inserting>>
    /\ ClientUnchanged

\* register up to insertOne: it replies, or goes on to hash and insert
ServeRegister(req, fault) ==
    LET res == IF server = "hybrid" THEN HybridRegisterFind(req, users, fault)
               ELSE CookieRegisterFind(req, users, fault)
    IN  /\ Len(users) + Len(inserting) < MaxUsers
        /\ IF res = NoReply
           THEN /\ inserting' = Append(inserting, NewUser(req))
                /\ UNCHANGED <<jar, store, served>>
           ELSE /\ Deliver("register", "any", res)
                /\ UNCHANGED inserting
        /\ UNCHANGED <<server, users, env>>
        /\ ClientUnchanged

\* register from insertOne on, for the k-th suspended handler
ServeInsert(k, fault) ==
    /\ k \in DOMAIN inserting
    /\ users' = IF fault THEN users ELSE Append(users, inserting[k])
    /\ inserting' = [j \in 1..(Len(inserting) - 1) |->
                       IF j < k THEN inserting[j] ELSE inserting[j + 1]]
    /\ Deliver("register", "any", RegisterInsert(fault))
    /\ UNCHANGED <<server, env>>
    /\ ClientUnchanged

\* time passes: the expiresIn of a token in the cookie jar is over (a token sent
\* in a header after its expiry is one of the strings jwt.verify throws on: Garbage)
Expire(name) ==
    /\ jar[name] \notin {NoToken, Garbage}
    /\ jar[name].live
    /\ jar' = [jar EXCEPT ![name].live = FALSE]
    /\ UNCHANGED <<server, users, env, store, inserting, served>>
    /\ ClientUnchanged

InitServer ==
    /\ calls = <<>>
    /\ isRefreshing = FALSE
    /\ failedRequestsQueue = <<>>
    /\ pathname = "/login"
    /\ stepTrace = <<>>
    /\ stepDone = <<>>
    /\ InitAuthProvider
    /\ replayed = {}
    /\ rendered = NotRendered
    /\ variant = "axios"
    /\ cookies = {}
    /\ server \in {"cookie", "hybrid"}
    /\ users = <<>>
    /\ env \in {Keys, {}}
    /\ jar = NoTokens
    /\ store = NoTokens
    /\ inserting = <<>>
    /\ served = NothingServed

NextServer ==
    \/ \E req \in BodyRequests, fault \in BOOLEAN : ServeLogin(req, fault)
    \/ \E req \in BodyRequests, fault \in BOOLEAN : ServeRegister(req, fault)
    \/ \E k \in DOMAIN inserting, fault \in BOOLEAN : ServeInsert(k, fault)
    \/ \E req \in MeRequests, fault \in BOOLEAN : ServeMe(req, fault)
    \/ \E req \in RefreshRequests, fault \in BOOLEAN : ServeRefresh(req, fault)
    \/ \E req \in LogoutRequests : ServeLogout(req)
    \/ \E name \in DOMAIN jar : Expire(name)

SpecServer == InitServer /\ [][NextServer]_vars

(***************************************************************************)
(* The same server and a client that also presents its artifacts in each   *)
(* other's place: it exchanges the values of its two cookies, or of the    *)
(* two tokens it sends in the Authorization and X-Refresh-Token headers.   *)
(***************************************************************************)
Exchanged(held) == [accessToken |-> held.refreshToken, refreshToken |-> held.accessToken]

Exchange(cookie) ==
    /\ IF cookie
       THEN jar # NoTokens /\ jar' = Exchanged(jar) /\ UNCHANGED store
       ELSE store # NoTokens /\ store' = Exchanged(store) /\ UNCHANGED jar
    /\ UNCHANGED <<server, users, env, inserting, served>>
    /\ ClientUnchanged

NextExchange ==
    \/ \E req \in BodyRequests, fault \in BOOLEAN : ServeLogin(req, fault)
    \/ \E req \in BodyRequests, fault \in BOOLEAN : ServeRegister(req, fault)
    \/ \E k \in DOMAIN inserting, fault \in BOOLEAN : ServeInsert(k, fault)
    \/ \E req \in MeRequests, fault \in BOOLEAN : ServeMe(req, fault)
    \/ \E req \in RefreshRequests, fault \in BOOLEAN : ServeRefresh(req, fault)
    \/ \E req \in LogoutRequests : ServeLogout(req)
    \/ \E name \in DOMAIN jar : Expire(name)
    \/ \E cookie \in BOOLEAN : Exchange(cookie)

SpecExchange == InitServer /\ [][NextExchange]_vars

(***************************************************************************)
(* getClientType applied to the headers of a request.  A User-Agent is     *)
(* built from a product token between a prefix and a suffix; the X-Client- *)
(* Type header is any of a few strings, "" when absent.                    *)
(***************************************************************************)
ClientTypeHeaders == {"", "web", "mobile", "Mobile", "WEB", "mobile ", "ios"}

Markers == {Mobile, ReactNative, Expo, Flutter}
Products ==
    Markers \cup
    {<<>>,
     <<"m","o","b","i","l","e">>,
     <<"R","e","a","c","t","N","a","t","i","v","e">>,
     <<"E","x","p">>,
     <<"F","l","u","t","t","e">>,
     <<"o","k","h","t","t","p">>}
Prefixes == {<<>>, <<"M","o","z","i","l","l","a","/","5"," ">>}
Suffixes == {<<>>, <<"/","1">>}

Agents == [pre : Prefixes, product : Products, suf : Suffixes]

\* req.headers['user-agent'] || ''
UserAgentOf(agent) == agent.pre \o agent.product \o agent.suf

Classify(clientType, agent) ==
    /\ served' = [route |-> "classify", clientType |-> clientType, agent |-> agent,
                  type |-> getClientType([clientType |-> clientType,
                                          userAgent |-> UserAgentOf(agent)])]
    /\ UNCHANGED <<server, users, env, jar, store, inserting>>
    /\ ClientUnchanged

InitClientType ==
    /\ calls = <<>>
    /\ isRefreshing = FALSE
    /\ failedRequestsQueue = <<>>
    /\ pathname = "/login"
    /\ stepTrace = <<>>
    /\ stepDone = <<>>
    /\ InitAuthProvider
    /\ replayed = {}
    /\ rendered = NotRendered
    /\ variant = "axios"
    /\ cookies = {}
    /\ server = "hybrid"
    /\ users = <<>>
    /\ env = Keys
    /\ jar = NoTokens
    /\ store = NoTokens
    /\ inserting = <<>>
    /\ served = NothingServed

NextClientType == \E clientType \in ClientTypeHeaders, agent \in Agents : Classify(clientType, agent)

SpecClientType == InitClientType /\ [][NextClientType]_vars

Next ==
    \/ \E url \in Urls : Request(url)
    \/ \E c \in DOMAIN calls, s \in Statuses : Respond(c, s)
    \/ \E p \in Pathnames : Navigate(p)

Spec == Init /\ [][Next]_vars

\* the same program, application code calling any endpoint of the server, the
\* server answering with any status, the page loaded being any page
UrlRequest(url) == RequestUpTo(MaxUrlReqs, url)

InitUrl ==
    /\ calls = <<>>
    /\ isRefreshing = FALSE
    /\ failedRequestsQueue = <<>>
    /\ pathname \in AllPathnames
    /\ stepTrace = <<>>
    /\ stepDone = <<>>
    /\ InitAuthProvider
    /\ replayed = {}
    /\ rendered = NotRendered
    /\ variant = "axios"
    /\ cookies = {}
    /\ ServerIdle

NextUrl ==
    \/ \E url \in AllUrls : UrlRequest(url)
    \/ \E c \in DOMAIN calls, s \in AllStatuses : Respond(c, s)

SpecUrl == InitUrl /\ [][NextUrl]_vars

\* the same program, application code calling endpoints of its own next to the
\* auth endpoints: /auth/login-history, /api/users/auth/logout-all
LoginHistoryUrl == LoginUrl \o <<"-","h","i","s","t","o","r","y">>
LogoutAllUrl ==
    <<"/","a","p","i","/","u","s","e","r","s">> \o LogoutUrl \o <<"-","a","l","l">>
AppUrls == {MeUrl, LoginUrl, LoginHistoryUrl, LogoutAllUrl}

InitApp ==
    /\ calls = <<>>
    /\ isRefreshing = FALSE
    /\ failedRequestsQueue = <<>>
    /\ pathname = "/dashboard"
    /\ stepTrace = <<>>
    /\ stepDone = <<>>
    /\ InitAuthProvider
    /\ replayed = {}
    /\ rendered = NotRendered
    /\ variant = "axios"
    /\ cookies = {}
    /\ ServerIdle

NextApp ==
    \/ \E url \in AppUrls : UrlRequest(url)
    \/ \E c \in DOMAIN calls, s \in Statuses : Respond(c, s)

SpecApp == InitApp /\ [][NextApp]_vars

\* the same program with finitely many requests, every network call eventually
\* returning a response or a transport error
LiveRequest(url) == RequestUpTo(MaxLiveReqs, url)

LiveCallIds == 1..(2 * MaxLiveReqs)

NextLive ==
    \/ \E url \in Urls : LiveRequest(url)
    \/ \E c \in DOMAIN calls, s \in Statuses : Respond(c, s)

SpecLive ==
    /\ Init
    /\ [][NextLive]_vars
    /\ WF_vars(\E c \in LiveCallIds, s \in Statuses : Respond(c, s))

\* the same program, with the history of the calls the interceptor re-issues:
\* api(originalRequest) after the refresh call (line 419) and in the continuation
\* of a queued request (line 408)
Reissued(S) ==
    {c \in DOMAIN calls :
        calls[c].st \in {"awaiting", "queued"} /\ S.calls[c].st = "inflight"}

ReplayRespond(c, status) ==
    /\ c \in DOMAIN calls
    /\ calls[c].st = "inflight"
    /\ Assign(Interceptor(State, c, status))
    /\ replayed' = replayed \cup Reissued(Interceptor(State, c, status))
    /\ UNCHANGED rendered

ReplayStatuses == {200, 401, 500}

NextReplay ==
    \/ \E url \in Urls : UrlRequest(url)
    \/ \E c \in DOMAIN calls, s \in ReplayStatuses : ReplayRespond(c, s)

SpecReplay == InitApp /\ [][NextReplay]_vars

\* the same program against a server that accepts every refresh and still
\* answers 401 to every other call (a clock skew, a revoked account)
NextDenied ==
    \/ \E url \in Urls : LiveRequest(url)
    \/ \E c \in DOMAIN calls : RespondCaller(c, 401)
    \/ \E r \in DOMAIN calls : RespondRefresh(r, 200)

SpecDenied ==
    /\ Init
    /\ [][NextDenied]_vars
    /\ WF_vars(\E c \in LiveCallIds :
                  c \in DOMAIN calls /\ (RespondCaller(c, 401) \/ RespondRefresh(c, 200)))

(***************************************************************************)
(* Vocabulary of the properties                                            *)
(***************************************************************************)
InQueue(c) == \E i \in DOMAIN failedRequestsQueue : failedRequestsQueue[i] = c

\* refresh calls issued by the interceptor whose response has not arrived
OutstandingRefreshes == {r \in RefreshCalls : calls[r].st # "settled"}

\* callers whose request got a refresh-eligible 401 and who wait for the refresh
Waiting == {c \in Callers : calls[c].st \in {"awaiting", "queued"}}

\* this step appends a call to `calls` (a refresh call, or a caller's request)
IssuesRefresh == Len(calls') > Len(calls) /\ calls'[Len(calls')].parent # 0

\* this step handles the failure / the success of a refresh call
RefreshFails(r) == \E s \in AllStatuses \ {200} : RespondRefresh(r, s)
RefreshOk(r) == RespondRefresh(r, 200)

(***************************************************************************)
(* C1  At most one refresh call issued by the interceptor is outstanding   *)
(* in any reachable state; isRefreshing is true exactly while one is; a    *)
(* step issues a refresh only from isRefreshing = FALSE and leaves         *)
(* isRefreshing = TRUE behind in that same step.                           *)
(***************************************************************************)
C1_AtMostOneRefresh ==
    /\ [](/\ Cardinality(OutstandingRefreshes) <= 1
          /\ isRefreshing <=> OutstandingRefreshes # {})
    /\ [][IssuesRefresh => ~isRefreshing /\ isRefreshing']_vars

\* a second 401 handler ran while the first refresh was outstanding
C1_Witness ==
    /\ isRefreshing
    /\ Cardinality(OutstandingRefreshes) = 1
    /\ Len(failedRequestsQueue) >= 1

(***************************************************************************)
(* C2  When N >= 2 requests got a refresh-eligible 401 before the refresh  *)
(* settled, exactly one refresh call is outstanding, it belongs to one     *)
(* trigger, and the N-1 others are in the queue (each once); a request     *)
(* that is enqueued issues no refresh call of its own, and the request     *)
(* that becomes the trigger is the one that found nobody waiting.          *)
(***************************************************************************)
C2_OneRefreshForN ==
    /\ [](Waiting # {} =>
            /\ Cardinality(OutstandingRefreshes) = 1
            /\ \E t \in Waiting :
                /\ calls[t].st = "awaiting"
                /\ \A r \in OutstandingRefreshes : calls[r].parent = t
                /\ \A c \in Waiting \ {t} : calls[c].st = "queued" /\ InQueue(c)
            /\ Len(failedRequestsQueue) = Cardinality(Waiting) - 1)
    /\ [][\A c \in Callers :
            /\ (calls[c].st # "queued" /\ calls'[c].st = "queued")
                  => Len(calls') = Len(calls) /\ Waiting # {}
            /\ (calls[c].st # "awaiting" /\ calls'[c].st = "awaiting")
                  => Waiting = {} /\ IssuesRefresh]_vars

\* N = 3: one trigger and two queued requests behind a single refresh call
C2_Witness ==
    /\ Cardinality(Waiting) = 3
    /\ Len(failedRequestsQueue) = 2
    /\ Cardinality(RefreshCalls) = 1

(***************************************************************************)
(* C3  Liveness, under SpecLive (finitely many requests, an in-flight call  *)
(* is eventually answered): from some point on no caller waits for a       *)
(* refresh any more, neither as trigger nor in the queue, the queue is     *)
(* empty and every call made has been settled.  A settled call stays       *)
(* settled, so every caller that ever waited has its promise settled.      *)
(***************************************************************************)
C3_EveryWaiterSettles ==
    <>[](/\ Waiting = {}
         /\ failedRequestsQueue = <<>>
         /\ \A c \in DOMAIN calls : calls[c].st = "settled")

\* two callers waited for the same refresh, one as trigger and one queued (the
\* queued one never has _retry set), and both have been settled with its error
C3_Witness ==
    \E t, q \in Callers :
        /\ calls[t].retry /\ ~calls[q].retry
        /\ calls[t].st = "settled" /\ calls[q].st = "settled"
        /\ calls[t].out.from \in RefreshCalls
        /\ calls[q].out = calls[t].out

(***************************************************************************)
(* C4  In the step in which the refresh call succeeds, every request in    *)
(* the queue and the triggering request are re-issued (in flight again),   *)
(* the queue is empty and no other call is made; and whenever a caller's   *)
(* request, a replay included, is answered 200, the caller is resolved     *)
(* with the response of that very request; no caller is ever resolved      *)
(* with anything but a response to its own request.                        *)
(***************************************************************************)
C4_SuccessReplaysAll ==
    /\ [][/\ \A r \in RefreshCalls : RefreshOk(r) =>
                /\ \A i \in DOMAIN failedRequestsQueue :
                      calls'[failedRequestsQueue[i]].st = "inflight"
                /\ calls'[calls[r].parent].st = "inflight"
                /\ failedRequestsQueue' = <<>>
                /\ Len(calls') = Len(calls)
           /\ \A c \in Callers : RespondCaller(c, 200) =>
                /\ calls'[c].st = "settled"
                /\ calls'[c].out = Response(c, 200)]_vars
    /\ [](\A c \in Callers :
             calls[c].out.kind = "response" => calls[c].out = Response(c, 200))

\* the state right after a successful refresh that two requests were queued behind:
\* the trigger and both queued requests are in flight again
C4_Witness ==
    /\ Len(stepTrace) = 4
    /\ stepTrace[1].queued = 2
    /\ stepTrace[3].at = "api"
    /\ \E r \in RefreshCalls : calls[r].out = Response(r, 200)
    /\ Cardinality({c \in Callers : calls[c].st = "inflight"}) = 3

(***************************************************************************)
(* C5  In the step in which the refresh call fails (a 401, another error   *)
(* status or a transport failure), every request in the queue and the      *)
(* triggering request are settled with the refresh call's own error        *)
(* object; none of them is re-issued and no call is made.                  *)
(***************************************************************************)
C5_FailureRejectsAll ==
    [][\A r \in RefreshCalls, s \in AllStatuses \ {200} : RespondRefresh(r, s) =>
            /\ \A i \in DOMAIN failedRequestsQueue :
                  /\ calls'[failedRequestsQueue[i]].st = "settled"
                  /\ calls'[failedRequestsQueue[i]].out = Error(r, s)
            /\ calls'[calls[r].parent].st = "settled"
            /\ calls'[calls[r].parent].out = Error(r, s)
            /\ failedRequestsQueue' = <<>>
            /\ Len(calls') = Len(calls)]_vars

\* the state right after a refresh failed by transport error with a request queued:
\* trigger and queued request both carry the error of the refresh call
C5_Witness ==
    /\ Len(stepTrace) = 4
    /\ stepTrace[1].queued = 1
    /\ \E r \in RefreshCalls, t, q \in Callers :
          /\ t # q
          /\ calls[r].parent = t
          /\ calls[r].out = Error(r, NoResponse)
          /\ calls[t].out = Error(r, NoResponse)
          /\ calls[q].out = Error(r, NoResponse)

(***************************************************************************)
(* C6  A step assigns window.location.href exactly when it handles the     *)
(* failure of a refresh call while the pathname is not a public page, and  *)
(* the value assigned is /login; no other step of the interceptor changes  *)
(* the location.                                                           *)
(***************************************************************************)
C6_RedirectIffNotPublic ==
    [][/\ (\E i \in DOMAIN stepTrace' : stepTrace'[i].href # "")
            <=> (/\ pathname \notin {"/login", "/register", "/", "/forgot-password"}
                 /\ \E r \in RefreshCalls : RefreshFails(r))
       /\ \A i \in DOMAIN stepTrace' :
            stepTrace'[i].href # "" => stepTrace'[i].href = "/login" /\ pathname' = "/login"
       /\ (calls' # calls /\ \A i \in DOMAIN stepTrace' : stepTrace'[i].href = "")
            => pathname' = pathname]_vars

\* the state right after a refresh failure on a non-public page
C6_Witness ==
    /\ pathname = "/login"
    /\ \E i \in DOMAIN stepTrace : stepTrace[i].at = "redirect" /\ stepTrace[i].href = "/login"
    /\ \E r \in RefreshCalls : calls[r].out.kind = "error"

(***************************************************************************)
(* C7  When a request marked _retry fails with 401, in that step its       *)
(* caller is rejected with that 401 error, no refresh call is issued, the  *)
(* queue and isRefreshing are unchanged, whatever isRefreshing is.         *)
(***************************************************************************)
C7_RetriedNeverReenters ==
    [][\A c \in Callers : (calls[c].retry /\ RespondCaller(c, 401)) =>
            /\ calls'[c].st = "settled"
            /\ calls'[c].out = Error(c, 401)
            /\ Len(calls') = Len(calls)
            /\ failedRequestsQueue' = failedRequestsQueue
            /\ isRefreshing' = isRefreshing]_vars

\* a retried request was rejected with its own 401 while another refresh,
\* with a request queued behind it, was in flight
C7_Witness ==
    /\ isRefreshing
    /\ failedRequestsQueue # <<>>
    /\ \E c \in Callers :
          /\ calls[c].retry
          /\ calls[c].out = Error(c, 401)
          /\ \E r \in OutstandingRefreshes : calls[r].parent # c

(***************************************************************************)
(* C8  When a call to /auth/login, /auth/register, /auth/refresh or        *)
(* /auth/logout fails, with 401 or otherwise, in that step the call is     *)
(* rejected with its own error, no refresh call is issued and the call is  *)
(* not enqueued; for a caller's call the coordinator state is unchanged.   *)
(* The refresh call of the interceptor is such a call.                     *)
(***************************************************************************)
C8_AuthEndpointsExcluded ==
    [][\A c \in DOMAIN calls, s \in AllStatuses \ {200} :
          (/\ calls[c].url \in {LoginUrl, RegisterUrl, RefreshUrl, LogoutUrl}
           /\ Respond(c, s)) =>
            /\ calls'[c].st = "settled"
            /\ calls'[c].out = Error(c, s)
            /\ Len(calls') = Len(calls)
            /\ \A i \in DOMAIN failedRequestsQueue' : failedRequestsQueue'[i] # c
            /\ calls[c].parent = 0 =>
                  /\ failedRequestsQueue' = failedRequestsQueue
                  /\ isRefreshing' = isRefreshing]_vars

\* the refresh call itself was answered 401 and so was a caller's auth call
C8_Witness ==
    /\ \E r \in RefreshCalls : calls[r].out = Error(r, 401)
    /\ \E c \in Callers :
          /\ calls[c].url \in {LoginUrl, RegisterUrl, LogoutUrl}
          /\ calls[c].out = Error(c, 401)

(***************************************************************************)
(* C9  In every reachable state the queue is non-empty only while          *)
(* isRefreshing is true, and a step that enqueues a continuation starts    *)
(* and ends with isRefreshing true.                                        *)
(***************************************************************************)
C9_QueueOnlyWhileRefreshing ==
    /\ [](failedRequestsQueue # <<>> => isRefreshing)
    /\ [][Len(failedRequestsQueue') > Len(failedRequestsQueue)
             => isRefreshing /\ isRefreshing']_vars

\* a second episode: an earlier refresh has settled and the queue holds a
\* continuation again, behind a new refresh
C9_Witness ==
    /\ failedRequestsQueue # <<>>
    /\ isRefreshing
    /\ \E r \in RefreshCalls : calls[r].st = "settled"

(***************************************************************************)
(* C10  The step that handles the outcome of a refresh call, success or    *)
(* failure, empties the queue while isRefreshing is still true and resets  *)
(* isRefreshing afterwards; at no point of the step is isRefreshing false  *)
(* with a non-empty queue, and the step ends with isRefreshing false and   *)
(* the queue empty, which is what the next response handled observes.      *)
(***************************************************************************)
C10_DrainThenReset ==
    [][\A r \in RefreshCalls, s \in AllStatuses : RespondRefresh(r, s) =>
            /\ isRefreshing' = FALSE
            /\ failedRequestsQueue' = <<>>
            /\ \E i, j \in DOMAIN stepTrace' :
                  /\ i < j
                  /\ stepTrace'[i].at = "processQueue"
                  /\ stepTrace'[i].isRefreshing /\ stepTrace'[i].queued = 0
                  /\ stepTrace'[j].at = "finally"
                  /\ ~stepTrace'[j].isRefreshing /\ stepTrace'[j].queued = 0
            /\ \A i \in DOMAIN stepTrace' :
                  ~stepTrace'[i].isRefreshing => stepTrace'[i].queued = 0]_vars

\* the state right after a failed refresh that two requests were queued behind
C10_Witness ==
    /\ ~isRefreshing
    /\ failedRequestsQueue = <<>>
    /\ Len(stepTrace) = 4
    /\ stepTrace[1].queued = 2 /\ stepTrace[1].isRefreshing
    /\ stepTrace[3].at = "redirect"

(***************************************************************************)
(* C11  FIFO: the step that handles the outcome of a refresh call          *)
(* completes the continuations in exactly the order they have in the       *)
(* queue, resolving each (its request is in flight again) on success and   *)
(* rejecting each on failure; any other step leaves the queue as it was    *)
(* or appends at its tail, so nothing is removed or re-ordered before the  *)
(* refresh settles.                                                        *)
(***************************************************************************)
C11_Fifo ==
    /\ [][\A r \in RefreshCalls, s \in AllStatuses : RespondRefresh(r, s) =>
            /\ Len(stepDone') = Len(failedRequestsQueue)
            /\ \A i \in DOMAIN failedRequestsQueue :
                  /\ stepDone'[i].call = failedRequestsQueue[i]
                  /\ stepDone'[i].how = IF s = 200 THEN "resolve" ELSE "reject"
                  /\ s = 200 => calls'[failedRequestsQueue[i]].st = "inflight"]_vars
    /\ [][(\A r \in RefreshCalls, s \in AllStatuses : ~RespondRefresh(r, s)) =>
            /\ stepDone' = <<>>
            /\ Len(failedRequestsQueue') >= Len(failedRequestsQueue)
            /\ SubSeq(failedRequestsQueue', 1, Len(failedRequestsQueue))
                  = failedRequestsQueue]_vars

\* two continuations, enqueued in the reverse of the order in which their requests
\* were made, have been resolved in the order of the queue and are in flight again
C11_Witness ==
    /\ Len(stepDone) = 2
    /\ stepDone[1].call > stepDone[2].call
    /\ \A i \in DOMAIN stepDone :
          stepDone[i].how = "resolve" /\ calls[stepDone[i].call].st = "inflight"

(***************************************************************************)
(* C12  Exactly one outcome per call: a call is in the queue exactly once  *)
(* while it is queued and not at all otherwise; a trigger waits for        *)
(* exactly one outstanding refresh call; a call has an outcome exactly     *)
(* when it is settled and a settled call never changes again; a            *)
(* continuation that leaves the queue is completed exactly once in that    *)
(* step, resolved (re-issued) or rejected (settled), and no other          *)
(* continuation is completed.                                              *)
(***************************************************************************)
C12_ExactlyOneOutcome ==
    /\ [](\A c \in DOMAIN calls :
            /\ Cardinality({i \in DOMAIN failedRequestsQueue : failedRequestsQueue[i] = c})
                  = IF calls[c].st = "queued" THEN 1 ELSE 0
            /\ calls[c].st = "awaiting" =>
                  Cardinality({r \in OutstandingRefreshes : calls[r].parent = c}) = 1
            /\ calls[c].st = "settled" <=> calls[c].out.kind # "none")
    /\ [][\A c \in DOMAIN calls :
            /\ calls[c].st = "settled" => calls'[c] = calls[c]
            /\ Cardinality({i \in DOMAIN stepDone' : stepDone'[i].call = c})
                  = IF /\ InQueue(c)
                       /\ \A i \in DOMAIN failedRequestsQueue' : failedRequestsQueue'[i] # c
                    THEN 1 ELSE 0
            /\ \A i \in DOMAIN stepDone' : stepDone'[i].call = c =>
                  IF stepDone'[i].how = "resolve"
                  THEN calls'[c].st = "inflight"
                  ELSE calls'[c].st = "settled" /\ calls'[c].out.kind = "error"]_vars

\* two queued continuations have each been rejected once, and the trigger with them
C12_Witness ==
    /\ Len(stepDone) = 2
    /\ stepDone[1].call # stepDone[2].call
    /\ \A i \in DOMAIN stepDone :
          stepDone[i].how = "reject" /\ calls[stepDone[i].call].st = "settled"
    /\ Cardinality({c \in Callers : calls[c].out.kind = "error"}) = 3

(***************************************************************************)
(* C14  Passthrough: when a call of application code gets a failed         *)
(* response whose status is not 401 (a transport failure included), or     *)
(* the call is to an auth endpoint, or it is already marked _retry, the    *)
(* call is rejected with the error of that very response; when it gets a   *)
(* successful response the call is resolved with that response; in both    *)
(* cases isRefreshing, failedRequestsQueue, the page and every other call  *)
(* are left as they were and no call is issued.                            *)
(***************************************************************************)
C14_Passthrough ==
    [][\A c \in Callers, s \in AllStatuses : RespondCaller(c, s) =>
         LET failed == s # 200
             direct == s # 401 \/ isAuthEndpoint(calls[c].url) \/ calls[c].retry
         IN  (~failed \/ direct) =>
               /\ calls'[c] = [calls[c] EXCEPT
                                 !.st = "settled",
                                 !.out = IF failed THEN Error(c, s) ELSE Response(c, s)]
               /\ isRefreshing' = isRefreshing
               /\ failedRequestsQueue' = failedRequestsQueue
               /\ pathname' = pathname
               /\ Len(calls') = Len(calls)
               /\ \A d \in DOMAIN calls : d # c => calls'[d] = calls[d]]_vars

\* a replayed trigger (marked _retry) was rejected with its own 401 while the
\* refresh started by another call was outstanding, and the flag is still set
C14_Witness ==
    /\ \E c \in Callers : calls[c].retry /\ calls[c].out = Error(c, 401)
    /\ \E c \in Callers : calls[c].st = "awaiting"
    /\ isRefreshing

(***************************************************************************)
(* C15  A transport failure of the refresh call (no response) rejects      *)
(* every queued continuation and the trigger with that error, applies the  *)
(* redirect rule (to /login unless the page is public), empties the queue  *)
(* and leaves isRefreshing false; the step is, statement for statement,    *)
(* the one a 401 from the refresh endpoint produces, the status carried    *)
(* by the error apart.                                                     *)
(***************************************************************************)
C15_TransportFailureLike401 ==
    [][\A r \in RefreshCalls : RespondRefresh(r, NoResponse) =>
         LET T == Interceptor(State, r, 401)
         IN  /\ isRefreshing' = FALSE
             /\ failedRequestsQueue' = <<>>
             /\ \A i \in DOMAIN failedRequestsQueue :
                   /\ calls'[failedRequestsQueue[i]].st = "settled"
                   /\ calls'[failedRequestsQueue[i]].out = Error(r, NoResponse)
             /\ calls'[calls[r].parent].st = "settled"
             /\ calls'[calls[r].parent].out = Error(r, NoResponse)
             /\ pathname' = IF pathname \in publicPages THEN pathname ELSE "/login"
             /\ T.isRefreshing = isRefreshing'
             /\ T.queue = failedRequestsQueue'
             /\ T.pathname = pathname'
             /\ T.trace = stepTrace'
             /\ T.done = stepDone'
             /\ \A c \in DOMAIN calls :
                   /\ T.calls[c].st = calls'[c].st
                   /\ T.calls[c].out.kind = calls'[c].out.kind
                   /\ T.calls[c].out.from = calls'[c].out.from]_vars

\* the refresh call failed without a response on a protected page with one
\* continuation queued: both calls carry that error and the page was redirected
C15_Witness ==
    /\ Len(stepDone) = 1
    /\ stepDone[1].how = "reject"
    /\ \E r \in RefreshCalls :
          /\ calls[r].out = Error(r, NoResponse)
          /\ calls[stepDone[1].call].out = Error(r, NoResponse)
          /\ calls[calls[r].parent].out = Error(r, NoResponse)
    /\ \E i \in DOMAIN stepTrace : stepTrace[i].href = "/login"
    /\ ~isRefreshing

(***************************************************************************)
(* C13  One refresh call per expiry episode, in the arrival order where    *)
(* the refresh response overtakes a 401.  The calls made before the first  *)
(* refresh call was issued were all sent with the same, expired,           *)
(* credential.  When the first refresh call has just succeeded with no     *)
(* continuation queued, no request has been sent a second time except the  *)
(* trigger, which is marked _retry; so the 401 that then arrives for an    *)
(* unmarked call of the episode answers its first send, and the claim      *)
(* says that it issues no second refresh call.                             *)
(***************************************************************************)
FirstRefreshJustSucceeded(r) ==
    /\ RefreshCalls = {r}
    /\ calls[r].out = Response(r, 200)
    /\ Len(stepTrace) > 0
    /\ stepDone = <<>>

C13_OneRefreshPerEpisode ==
    [][\A c \in Callers, r \in RefreshCalls :
         ( /\ FirstRefreshJustSucceeded(r)
           /\ c < r
           /\ ~calls[c].retry
           /\ ~isAuthEndpoint(calls[c].url)
           /\ RespondCaller(c, 401) ) => Len(calls') = Len(calls)]_vars

(***************************************************************************)
(* Vocabulary of the claims about the AuthProvider                         *)
(***************************************************************************)
\* operation o ends in this step
Ends(o) == ops[o].pc # "done" /\ ops'[o].pc = "done"

\* operation o, of the AuthProvider that uses `api`, awaits call c
AwaitsCall(o, name, c) ==
    ops[o].op = name /\ ops[o].pc = "await" /\ ops[o].call = c

(***************************************************************************)
(* C16  checkAuthStatus: in the step in which it ends loading is false,    *)
(* and either user is a user of the server and error is null (the          *)
(* identity fetch succeeded) or user is null and error is a string (it     *)
(* failed); with `api`, the first holds exactly when the awaited call      *)
(* resolved with a response.                                               *)
(***************************************************************************)
C16_CheckStatusOutcome ==
    [][\A o \in DOMAIN ops : (ops[o].op = "checkAuthStatus" /\ Ends(o)) =>
          /\ loading' = FALSE
          /\ \/ user' \in Users /\ error' = null
             \/ user' = null /\ error' # null
          /\ variant = "axios" =>
                (user' \in Users <=> calls'[ops[o].call].out.kind = "response")]_vars

(***************************************************************************)
(* C17  login failure: when the login call fails, error becomes the        *)
(* message of the server's reply if it has one and 'Login failed'          *)
(* otherwise (no response at all), loading becomes false, and login        *)
(* throws an error with that same message.                                 *)
(***************************************************************************)
C17_LoginFailure ==
    [][\A o \in DOMAIN ops, c \in DOMAIN calls, r \in AllReplies :
         (AwaitsCall(o, "login", c) /\ Reply(c, r) /\ ~ok(r.status)) =>
            /\ error' = IF r.data.message # null THEN r.data.message ELSE "Login failed"
            /\ loading' = FALSE
            /\ ops'[o].result = "threw"
            /\ ops'[o].message = error']_vars

\* a login ended with no response from the server: it threw the fallback message
C17_Witness ==
    /\ \E o \in DOMAIN ops :
          /\ ops[o].op = "login"
          /\ ops[o].result = "threw"
          /\ ops[o].message = "Login failed"
    /\ error = "Login failed"
    /\ ~loading

(***************************************************************************)
(* C18  After a login attempt that the server rejects with 401             *)
(* 'Invalid credentials', error is 'Invalid credentials' and user is       *)
(* null, whatever the state was.                                           *)
(***************************************************************************)
InvalidCredentials == Json(401, "Invalid credentials", null)

C18_RejectedLoginClearsUser ==
    [][\A o \in DOMAIN ops, c \in DOMAIN calls :
         (AwaitsCall(o, "login", c) /\ Reply(c, InvalidCredentials)) =>
            /\ error' = "Invalid credentials"
            /\ user' = null]_vars

(***************************************************************************)
(* C18 amended  After a login attempt that the server rejects with 401     *)
(* 'Invalid credentials', error is 'Invalid credentials' and user is what  *)
(* it was before the reply: null if nobody was signed in, the signed-in    *)
(* user otherwise.                                                         *)
(***************************************************************************)
C18_RejectedLoginKeepsUser ==
    [][\A o \in DOMAIN ops, c \in DOMAIN calls :
         (AwaitsCall(o, "login", c) /\ Reply(c, InvalidCredentials)) =>
            /\ error' = "Invalid credentials"
            /\ user' = user]_vars

\* checkAuthStatus signed a user in, then a login was rejected: the user is still there
C18_Witness ==
    /\ user \in Users
    /\ error = "Invalid credentials"
    /\ \E o \in DOMAIN ops :
          /\ ops[o].op = "login"
          /\ ops[o].result = "threw"
          /\ ops[o].message = "Invalid credentials"

(***************************************************************************)
(* C19  login, in both AuthProvider files: the call sets loading to true   *)
(* and error to null before the request is sent; in the step in which      *)
(* login ends loading is false; when it ends by returning, the reply was   *)
(* a success, user is the user of that reply and error is null.            *)
(***************************************************************************)
C19_Login ==
    /\ [][(Login \/ LoginFetch) =>
            /\ loading' = TRUE
            /\ error' = null
            /\ user' = user
            /\ Len(ops') = Len(ops) + 1
            /\ ops'[Len(ops')].op = "login"
            /\ ops'[Len(ops')].result = "pending"]_vars
    /\ [][\A o \in DOMAIN ops : (ops[o].op = "login" /\ Ends(o)) => loading' = FALSE]_vars
    /\ [][\A o \in DOMAIN ops, c \in DOMAIN calls, r \in AllReplies :
            (AwaitsCall(o, "login", c) /\ Reply(c, r) /\ ok(r.status)) =>
               /\ ops'[o].result = "returned"
               /\ user' = r.data.user
               /\ error' = null]_vars
    /\ [][\A o \in DOMAIN ops, r \in AllReplies :
            (ops[o].op = "login" /\ ReplyFetch(o, r) /\ ok(r.status)) =>
               /\ ops'[o].result = "returned"
               /\ user' = r.data.user
               /\ error' = null]_vars
    /\ [][\A o \in DOMAIN ops :
            (ops[o].op = "login" /\ Ends(o) /\ ops'[o].result = "returned") =>
               user' \in Users /\ error' = null]_vars

\* a login through fetch returned: the user is signed in
C19_Witness ==
    /\ variant = "fetch"
    /\ \E o \in DOMAIN ops : ops[o].op = "login" /\ ops[o].result = "returned"
    /\ user \in Users
    /\ error = null
    /\ ~loading

(***************************************************************************)
(* C20  register: neither the call nor the step that ends it changes       *)
(* user; the call sets loading to true and error to null; on a successful  *)
(* reply error is null, loading false and register returns; on a failure   *)
(* error is the server's message, or 'Registration failed' when there is   *)
(* none, loading is false and register throws that message; no reply of    *)
(* the register endpoint changes the credential cookies of the browser.    *)
(***************************************************************************)
C20_Register ==
    /\ [][Register => user' = user /\ loading' = TRUE /\ error' = null]_vars
    /\ [][\A o \in DOMAIN ops, c \in DOMAIN calls, r \in AllReplies :
            (AwaitsCall(o, "register", c) /\ Reply(c, r)) =>
               /\ user' = user
               /\ cookies' = cookies
               /\ loading' = FALSE
               /\ IF ok(r.status)
                  THEN error' = null /\ ops'[o].result = "returned"
                  ELSE /\ error' = IF r.data.message # null THEN r.data.message
                                   ELSE "Registration failed"
                       /\ ops'[o].result = "threw"
                       /\ ops'[o].message = error']_vars

\* a registration succeeded with nobody signed in: still nobody is, and the
\* browser holds no credential
C20_Witness ==
    /\ \E o \in DOMAIN ops : ops[o].op = "register" /\ ops[o].result = "returned"
    /\ user = null
    /\ error = null
    /\ ~loading
    /\ cookies = {}

(***************************************************************************)
(* C21  logout: whatever the reply to the logout call (a success, a        *)
(* failure, no response at all), the step that handles it ends logout by   *)
(* returning, never by throwing, with user = null, error = null,           *)
(* loading = false and the page at /login; and a logout that has ended     *)
(* has ended that way.                                                     *)
(***************************************************************************)
C21_Logout ==
    /\ [][\A o \in DOMAIN ops, c \in DOMAIN calls, r \in AllReplies :
            (AwaitsCall(o, "logout", c) /\ Reply(c, r)) =>
               /\ ops'[o].pc = "done"
               /\ ops'[o].result = "returned"
               /\ user' = null
               /\ error' = null
               /\ loading' = FALSE
               /\ pathname' = "/login"]_vars
    /\ [](\A o \in DOMAIN ops :
            (ops[o].op = "logout" /\ ops[o].pc = "done") => ops[o].result = "returned")

\* a user was signed in on the dashboard, the logout call got no response: logout
\* returned, nobody is signed in and the page is /login
C21_Witness ==
    /\ \E o \in DOMAIN ops :
          /\ ops[o].op = "logout"
          /\ ops[o].result = "returned"
          /\ calls[ops[o].call].out = Error(ops[o].call, NoResponse)
    /\ \E o \in DOMAIN ops : ops[o].op = "checkAuthStatus" /\ ops[o].result = "returned"
    /\ Len(calls) = 2
    /\ calls[1].out = Response(1, 200)
    /\ user = null
    /\ error = null
    /\ ~loading
    /\ pathname = "/login"

(***************************************************************************)
(* C22  No automatic retry of a rejected login or registration: the step   *)
(* that handles a 401 for the call of login, or a 400 for the call of      *)
(* register, ends the operation, issues no call (no refresh call, no       *)
(* second send), does not mark the request _retry, and leaves              *)
(* isRefreshing and the queue alone; the call, once settled, is never in   *)
(* flight again, so the operation made exactly one network call.           *)
(***************************************************************************)
Rejected(name, r) ==
    \/ name = "login" /\ r.status = 401
    \/ name = "register" /\ r.status = 400

C22_NeverRetried ==
    /\ [][\A o \in DOMAIN ops, c \in DOMAIN calls, r \in AllReplies :
            ( /\ ops[o].pc = "await"
              /\ ops[o].call = c
              /\ Rejected(ops[o].op, r)
              /\ Reply(c, r) ) =>
               /\ Len(calls') = Len(calls)
               /\ calls'[c] = [calls[c] EXCEPT !.st = "settled", !.out = Error(c, r.status)]
               /\ ~calls'[c].retry
               /\ isRefreshing' = isRefreshing
               /\ failedRequestsQueue' = failedRequestsQueue
               /\ ops'[o].result = "threw"]_vars
    /\ [][\A c \in DOMAIN calls :
            (calls[c].url \in {LoginUrl, RegisterUrl} /\ calls[c].st = "settled") =>
               calls'[c] = calls[c]]_vars

\* a login was rejected with 401 and ended; the only calls ever made are the one
\* of checkAuthStatus and the one of login
C22_Witness ==
    /\ \E o \in DOMAIN ops :
          /\ ops[o].op = "login"
          /\ ops[o].result = "threw"
          /\ calls[ops[o].call].out = Error(ops[o].call, 401)
          /\ ~calls[ops[o].call].retry
    /\ Len(calls) = 2
    /\ RefreshCalls = {}


(***************************************************************************)
(* The server routes, under SpecServer                                     *)
(***************************************************************************)
\* the reply of each route of the mounted route file to a request
LoginReply(req, fault) ==
    IF server = "hybrid" THEN HybridLogin(req, users, env, fault)
    ELSE CookieLogin(req, users, env, fault)
MeReply(req, fault) ==
    IF server = "hybrid" THEN HybridMe(req, users, env, fault)
    ELSE CookieMe(req, users, env, fault)
RefreshReply(req, fault) ==
    IF server = "hybrid" THEN HybridRefresh(req, users, env, fault)
    ELSE CookieRefresh(req, users, env, fault)
LogoutReply(req) ==
    IF server = "hybrid" THEN HybridLogout(req) ELSE CookieLogout(req)

\* the credentials a request carries on the transport of its client type
Carried(req) ==
    IF ClientOf(req) = "web" THEN req.cookies
    ELSE [accessToken |-> req.authorization, refreshToken |-> req.xRefreshToken]

\* a credential is valid when it was issued as that kind and has not expired
Valid(token, kind) == token.kind = kind /\ token.live

\* the artifacts a reply issues, as cookies or in the body
Issued(res, name) == {res.cookie[name], res.tokens[name]} \ {NoToken}

\* C23: POST /auth/refresh answers 200 with the user and a newly issued access
\* artifact, or 401; a request whose refresh credential is missing, invalid or
\* expired is answered 401.
C23_RefreshAnswers ==
    /\ served.route = "refresh" => served.status \in {200, 401}
    /\ \A req \in HeaderRequests, fault \in BOOLEAN :
          LET res == RefreshReply(req, fault)
          IN  /\ res.status \in {200, 401}
              /\ res.status = 200 =>
                    /\ res.user \in DOMAIN users
                    /\ \E t \in Issued(res, "accessToken") : Valid(t, "access")
              /\ ~Valid(Carried(req).refreshToken, "refresh") => res.status = 401


\* a request that carries both an email and a password
WellFormed(req) == req.body.email # "" /\ req.body.password # ""

\* C25: POST /auth/register answers 201 and stores one new user when the email is
\* not yet registered, and answers 400 without changing the collection when a user
\* with that email exists (for a request with email and password, the database
\* working), whether the reply is sent at the existence check or after it.
C25_Register ==
    /\ [][\A req \in BodyRequests :
            (ServeRegister(req, FALSE) /\ WellFormed(req)
                /\ findOne(users, req.body.email) # 0)
            => (served'.route = "register" /\ served'.status = 400 /\ users' = users)]_vars
    /\ [][\A k \in DOMAIN inserting :
            ServeInsert(k, FALSE)
            => IF findOne(users, inserting[k].email) = 0
               THEN /\ served'.status = 201
                    /\ users' = Append(users, inserting[k])
               ELSE /\ served'.status = 400
                    /\ users' = users]_vars


\* the email belongs to a stored user and the password matches that user's hash
Registered(email, password) ==
    \E i \in DOMAIN users :
        users[i].email = email /\ compare(password, users[i].password)

\* the reply is a 200 that carries a stored user and issues both artifacts
LoggedIn(res) ==
    /\ res.status = 200
    /\ res.user \in DOMAIN users
    /\ \E t \in Issued(res, "accessToken") : Valid(t, "access")
    /\ \E t \in Issued(res, "refreshToken") : Valid(t, "refresh")

\* C24: POST /auth/login answers 200 with the user and both artifacts exactly when
\* the email belongs to a stored user and the password matches that user's hash;
\* otherwise (email and password given) it answers 401 with a message and issues
\* no artifact.  Stated for a configured server whose database works.
C24_Login ==
    env = Keys =>
        \A req \in FormRequests :
            LET res == LoginReply(req, FALSE)
            IN  /\ LoggedIn(res) <=> Registered(req.body.email, req.body.password)
                /\ (WellFormed(req) /\ ~Registered(req.body.email, req.body.password))
                   => /\ res.status = 401
                      /\ res.message # ""
                      /\ Issued(res, "accessToken") = {}
                      /\ Issued(res, "refreshToken") = {}


\* what the claim asks of the reply to a /me request
MeContract(req, res) ==
    LET accessToken == Carried(req).accessToken
    IN  /\ Valid(accessToken, "access") =>
              /\ res.status = 200
              /\ res.user = accessToken.id
              /\ res.user \in DOMAIN users
        /\ ~Valid(accessToken, "access") => res.status = 401
        /\ res.status = 200 => Valid(accessToken, "access")

\* C26 as claimed: GET /auth/me answers 200 with the user when the request carries
\* a valid, unexpired access artifact and 401 when the artifact is missing, invalid
\* or expired, for every request.
C26_MeAlways ==
    \A req \in HeaderRequests, fault \in BOOLEAN : MeContract(req, MeReply(req, fault))

\* C26: GET /auth/me answers 200 with the user when the request carries a valid,
\* unexpired access artifact and 401 when the artifact is missing, invalid or
\* expired, unless a call of the handler throws, which is answered 500; it never
\* answers 200 without a valid token.
C26_Me ==
    /\ \A req \in HeaderRequests :
          /\ MeContract(req, MeReply(req, FALSE))
          /\ MeReply(req, TRUE).status = 500
    /\ served.route = "me" => served.status \in {200, 401, 500}

C26_Witness ==
    /\ served.route = "me"
    /\ served.status = 200
    /\ \E req \in MeRequests : Valid(Carried(req).accessToken, "access")


\* C27: POST /auth/logout always answers 200, whatever the request carries (no
\* authentication is required); for a cookie-based client it clears the access and
\* the refresh cookie, so that the /auth/me and the /auth/refresh that this client
\* sends next are both rejected.
C27_Logout ==
    /\ \A req \in HeaderRequests : LogoutReply(req).status = 200
    /\ served.route = "logout" =>
          /\ served.status = 200
          /\ served.client = "web" =>
                /\ jar = NoTokens
                /\ \A req \in HeaderRequests, fault \in BOOLEAN :
                      ClientOf(req) = "web" =>
                          /\ ~ok(MeReply(req, fault).status)
                          /\ ~ok(RefreshReply(req, fault).status)

C27_Witness ==
    /\ served.route = "logout"
    /\ served.client = "web"
    /\ server = "cookie"
    /\ users # <<>>
    /\ jar = NoTokens


\* the replies of the token-handling routes to a request
TokenReplies(req) ==
    {LoginReply(req, FALSE), MeReply(req, FALSE), RefreshReply(req, FALSE),
     LogoutReply(req)}

\* the requests that differ from req only on the transport that is not the one of
\* its client type: the token headers for web, the cookies for mobile
OtherTransport(req) ==
    IF getClientType(req) = "web"
    THEN {[req EXCEPT !.authorization = a, !.xRefreshToken = x] :
            a \in {NoToken, Garbage, store.accessToken},
            x \in {NoToken, store.refreshToken}}
    ELSE {[req EXCEPT !.cookies = c] : c \in {NoTokens, jar, store}}

\* C28: on the hybrid server, a request classified as web gets its tokens only as
\* cookies, never in the body, and its tokens are read only from the cookies (the
\* token headers do not change any reply); a request classified as mobile gets
\* its tokens only in the body, no cookie is set or cleared, and its tokens are
\* read only from the headers (the cookies do not change any reply).
C28_TransportByClientType ==
    server = "hybrid" =>
        \A req \in BodyRequests \cup MeRequests \cup RefreshRequests :
            /\ \A res \in TokenReplies(req) :
                  IF getClientType(req) = "web"
                  THEN res.tokens = NoTokens
                  ELSE res.cookie = NoTokens /\ res.clear = {}
            /\ \A other \in OtherTransport(req) : TokenReplies(other) = TokenReplies(req)
            /\ LoggedIn(LoginReply(req, FALSE)) =>
                  IF getClientType(req) = "web"
                  THEN LoginReply(req, FALSE).cookie.accessToken # NoToken
                  ELSE LoginReply(req, FALSE).tokens.accessToken # NoToken

C28_Witness ==
    /\ server = "hybrid"
    /\ served = [route |-> "login", client |-> "mobile", status |-> 200]
    /\ Valid(store.accessToken, "access")
    /\ Valid(jar.refreshToken, "refresh")


C30_EligibleByEndpoint ==
    [][\A c \in Callers, s \in Statuses : (RespondCaller(c, s) /\ ~ok(s)) =>
         LET eligible == /\ s = 401
                         /\ ~calls[c].retry
                         /\ calls[c].url \notin {LoginUrl, RegisterUrl, RefreshUrl, LogoutUrl}
         IN  eligible <=> calls'[c].st \in {"awaiting", "queued"}]_vars


(***************************************************************************)
(* The refresh flow against a server that keeps answering 401, under       *)
(* SpecDenied                                                              *)
(***************************************************************************)
\* the refresh calls started by the error handler of call c
RefreshesOf(c) == {r \in RefreshCalls : calls[r].parent = c}

\* C31: when a protected endpoint keeps answering 401 although refreshes succeed,
\* each request starts at most one refresh call in its lifetime, so at most as
\* many refresh calls are issued as there are requests, and every caller is
\* eventually rejected with a 401.
C31_NoRefreshLoop ==
    /\ [](\A c \in Callers : Cardinality(RefreshesOf(c)) <= 1)
    /\ [](Cardinality(RefreshCalls) <= Cardinality(Callers))
    /\ \A c \in LiveCallIds :
          (c \in Callers) ~>
              (c \in Callers /\ calls[c].st = "settled" /\ calls[c].out = Error(c, 401))

\* two requests to the protected endpoint, each of which started one refresh that
\* succeeded, and both rejected with their own 401
C31_Witness ==
    /\ Cardinality(Callers) = 2
    /\ \A c \in Callers :
          /\ calls[c].url = MeUrl
          /\ Cardinality(RefreshesOf(c)) = 1
          /\ calls[c].st = "settled"
          /\ calls[c].out = Error(c, 401)
    /\ \A r \in RefreshCalls : calls[r].out = Response(r, 200)


(***************************************************************************)
(* Failures of replayed requests, under SpecReplay                         *)
(***************************************************************************)
\* the failure of call c leaves the page and every other caller's call alone
NotARefreshFailure(c) ==
    /\ pathname' = pathname
    /\ \A d \in Callers \ {c} : calls'[d] = calls[d]

\* the caller of c is rejected with the error of this very response
RejectedWithOwn(c, s) == calls'[c].st = "settled" /\ calls'[c].out = Error(c, s)

\* C32 as claimed: a failure of a replayed request after a successful refresh
\* rejects the caller of that request with the replay's own error, triggers no
\* redirect, rejects no other caller, and isRefreshing is false.
C32_ReplayFailureRejects ==
    [][\A c \in replayed, s \in ReplayStatuses : (ReplayRespond(c, s) /\ ~ok(s)) =>
         /\ RejectedWithOwn(c, s)
         /\ NotARefreshFailure(c)
         /\ ~isRefreshing']_vars

\* C32: a failure of a replayed request after a successful refresh triggers no
\* redirect and rejects no other caller; the caller of that request is rejected
\* with the replay's own error, isRefreshing and the queue staying as the failure
\* found them, unless the replay is that of a queued request (not marked _retry)
\* and fails with 401: it then enters the refresh flow again.
C32_ReplayFailure ==
    [][\A c \in replayed, s \in ReplayStatuses : (ReplayRespond(c, s) /\ ~ok(s)) =>
         /\ NotARefreshFailure(c)
         /\ IF s = 401 /\ ~calls[c].retry
            THEN calls'[c].st \in {"awaiting", "queued"}
            ELSE /\ RejectedWithOwn(c, s)
                 /\ isRefreshing' = isRefreshing
                 /\ failedRequestsQueue' = failedRequestsQueue]_vars

\* the replay of a queued request and the replay of the trigger both failed with
\* 500 after the refresh succeeded: each is rejected with its own error, the page
\* is still the dashboard
C32_Witness ==
    /\ pathname = "/dashboard"
    /\ ~isRefreshing
    /\ Cardinality(replayed) = 2
    /\ \A c \in replayed : calls[c].out = Error(c, 500)
    /\ \E c \in replayed : calls[c].retry
    /\ \E c \in replayed : ~calls[c].retry


(***************************************************************************)
(* The session after a failed refresh, under SpecStore                     *)
(***************************************************************************)
\* this step assigned '/login' to window.location.href
RedirectTriggered ==
    \E i \in DOMAIN stepTrace' : stepTrace'[i].href = "/login"

\* C33: whenever a refresh call made by the interceptor has failed, the client no
\* longer presents an authenticated session: the step that handles the failure
\* either triggers a redirect to /login or leaves the Auth Context user null.
C33_NoSessionAfterFailedRefresh ==
    [][\A r \in RefreshCalls, reply \in Replies(RefreshUrl) :
         (Reply(r, reply) /\ ~ok(reply.status)) =>
             (RedirectTriggered \/ user' = null)]_vars

\* a login signed a user in while the startup check was in flight; the check's
\* refresh then failed on the login page (no redirect) and the user is null
C33_Witness ==
    /\ pathname = "/login"
    /\ Len(stepTrace) > 0
    /\ \A i \in DOMAIN stepTrace : stepTrace[i].href = ""
    /\ \E r \in RefreshCalls : calls[r].out.kind = "error"
    /\ \E o \in DOMAIN ops : ops[o].op = "login" /\ ops[o].result = "returned"
    /\ user = null


(***************************************************************************)
(* Outcomes of overlapping operations, under SpecStore                     *)
(***************************************************************************)
\* operation o is a login that succeeded, and logout has not been called since
SignedInBy(o) ==
    /\ ops[o].op = "login"
    /\ ops[o].result = "returned"
    /\ \A p \in DOMAIN ops : p > o => ops[p].op # "logout"

C35_ProtectedRoute ==
    [][Render =>
        /\ rendered'.element = "children" => (~loading /\ user # null)
        /\ loading => rendered'.element \notin {"children", "Navigate"}
        /\ (~loading /\ user = null) <=>
               /\ rendered'.element = "Navigate"
               /\ rendered'.to = "/login"
               /\ rendered'.from = pathname
               /\ pathname' = "/login"]_vars

\* the dashboard was rendered with no session after the check of the session
\* had ended, and the browser is now at /login
C35_Witness ==
    /\ rendered.element = "Navigate"
    /\ rendered.from = "/dashboard"
    /\ pathname = "/login"
    /\ ~loading
    /\ user = null
    /\ ops # <<>>

(***************************************************************************)
(* Artifacts presented in each other's place, under SpecExchange           *)
(***************************************************************************)
\* C36: access and refresh artifacts are not interchangeable (the two keys being
\* distinct): /auth/me never answers 200 to a request whose access credential is
\* a refresh artifact, /auth/refresh never answers 200 to a request whose refresh
\* credential is an access artifact, and neither reply issues anything; what a
\* refresh artifact obtains from /auth/refresh is an access artifact of its user.
C36_NotInterchangeable ==
    /\ \A req \in MeRequests, fault \in BOOLEAN :
          Carried(req).accessToken.kind = "refresh" =>
              LET res == MeReply(req, fault)
              IN  /\ res.status # 200
                  /\ res.user = 0
                  /\ res.cookie = NoTokens /\ res.tokens = NoTokens
    /\ \A req \in RefreshRequests, fault \in BOOLEAN :
          LET res == RefreshReply(req, fault)
              refreshToken == Carried(req).refreshToken
          IN  /\ refreshToken.kind = "access" =>
                    /\ res.status # 200
                    /\ res.user = 0
                    /\ res.cookie = NoTokens /\ res.tokens = NoTokens
              /\ (refreshToken.kind = "refresh" /\ res.status = 200) =>
                    /\ Issued(res, "accessToken") = {Token("access", refreshToken.id)}
                    /\ Issued(res, "refreshToken") \subseteq {refreshToken}

\* the client sent its unexpired refresh artifact to /auth/me as the access
\* credential and was answered 401
C36_Witness ==
    /\ served.route = "me"
    /\ served.status = 401
    /\ env = Keys
    /\ \/ served.client = "web" /\ Valid(jar.accessToken, "refresh")
       \/ served.client = "mobile" /\ Valid(store.accessToken, "refresh")

(***************************************************************************)
(* The documents the server sends, under SpecServer.  A reply of the model *)
(* names the user by its position in the collection and a token by the _id *)
(* of its payload; the document that stands behind each is what the route  *)
(* made of the stored document before it signed or returned it.            *)
(***************************************************************************)
\* variant: the stored document is signed and returned as it is
safeUser_KeepsPassword(doc) == doc

\* const { password: _, ...safeUser } = user
safeUser(doc) == [f \in DOMAIN doc \ {"password"} |-> doc[f]]

\* collection.findOne({ _id }, { projection: { password: 0 } })
projection(doc, fields) == [f \in DOMAIN doc \ fields |-> doc[f]]

\* jwt.sign({ ...safeUser }, key, ..) of login and jwt.sign(safeUser, key, ..) of
\* refresh: the payload of the token issued for the user at position token.id
payload(coll, token) == safeUser(coll[token.id])

\* the `user` of the JSON body: `user` of /me is the projected document,
\* `user: { ...safeUser }` of login and `user: safeUser` of refresh
json(coll, route, res) ==
    IF route = "me" THEN projection(coll[res.user], {"password"})
    ELSE safeUser(coll[res.user])

\* every document a reply carries: the user of its body and the payloads of the
\* tokens it issues, in the body or as cookies
Documents(coll, route, res) ==
    {json(coll, route, res) : u \in {res.user} \ {0}}
        \cup {payload(coll, t) : t \in Issued(res, "accessToken") \cup Issued(res, "refreshToken")}

\* C37: no body of a reply and no payload of an issued token contains the stored
\* password hash of the user: login, /me and refresh remove the password field
\* from the user before they sign or return it, and register and logout send no
\* user at all.
C37_NoPasswordSent ==
    /\ \A req \in BodyRequests, fault \in BOOLEAN :
          /\ \A doc \in Documents(users, "login", LoginReply(req, fault)) :
                "password" \notin DOMAIN doc
          /\ Documents(users, "register",
                       IF server = "hybrid" THEN HybridRegisterFind(req, users, fault)
                       ELSE CookieRegisterFind(req, users, fault)) = {}
          /\ Documents(users, "register", RegisterInsert(fault)) = {}
    /\ \A req \in MeRequests, fault \in BOOLEAN :
          \A doc \in Documents(users, "me", MeReply(req, fault)) :
              "password" \notin DOMAIN doc
    /\ \A req \in RefreshRequests, fault \in BOOLEAN :
          \A doc \in Documents(users, "refresh", RefreshReply(req, fault)) :
              "password" \notin DOMAIN doc
    /\ \A req \in LogoutRequests : Documents(users, "logout", LogoutReply(req)) = {}

\* a user whose hash is stored has logged in, and the reply carried the user and
\* the payloads of two tokens
C37_Witness ==
    /\ served.route = "login"
    /\ served.status = 200
    /\ \E i \in DOMAIN users : users[i].password = hash("right")
    /\ \E req \in BodyRequests :
          /\ LoginReply(req, FALSE).status = 200
          /\ Documents(users, "login", LoginReply(req, FALSE)) # {}

(***************************************************************************)
(* What login tells about an email, under SpecServer                       *)
(***************************************************************************)
\* an email that no client registers
Unregistered == "x@y.com"

\* the login requests of a client, for any email
LoginRequests ==
    {Req(ct, NoToken, NoToken, [email |-> e, password |-> p]) :
        ct \in {"", "mobile"}, e \in Emails \cup {Unregistered}, p \in Passwords}

\* the email of the request is registered and its password is not the stored one
WrongPassword(req) ==
    /\ findOne(users, req.body.email) # 0
    /\ ~compare(req.body.password, users[findOne(users, req.body.email)].password)

\* C38: login does not reveal whether an email is registered: a login request
\* with an unknown email and one (of the same client type) with a known email and
\* a wrong password, both with a non-empty email and password, get the same
\* status and message, and neither is issued an artifact.
C38_LoginTellsNothing ==
    \A unknown \in LoginRequests, known \in LoginRequests, fault \in BOOLEAN :
        (/\ findOne(users, unknown.body.email) = 0
         /\ WrongPassword(known)
         /\ unknown.clientType = known.clientType) =>
            /\ LoginReply(unknown, fault) = LoginReply(known, fault)
            /\ Issued(LoginReply(unknown, fault), "accessToken") = {}
            /\ Issued(LoginReply(unknown, fault), "refreshToken") = {}
            /\ ~fault => LoginReply(unknown, fault) = Send(401, "Invalid credentials", 0)

\* a login with the registered email and a wrong password was answered 401, as
\* a login with an email that is not registered is in the same state
C38_Witness ==
    /\ served.route = "login"
    /\ served.status = 401
    /\ \E req \in BodyRequests : WrongPassword(req)
    /\ \E req \in LoginRequests :
          /\ findOne(users, req.body.email) = 0
          /\ LoginReply(req, FALSE).status = 401

(***************************************************************************)
(* Concurrent registrations, under SpecServer                              *)
(***************************************************************************)
\* C39: after any interleaving of concurrent register requests the collection
\* holds at most one user per email, and a registration is answered 201 only
\* when no user with its email is stored at the time of its insertion (of two
\* concurrent registrations of one new email at most one is answered 201).
C39_OneUserPerEmail ==
    /\ [](\A i \in DOMAIN users, j \in DOMAIN users :
             users[i].email = users[j].email => i = j)
    /\ [][\A k \in DOMAIN inserting :
             (ServeInsert(k, FALSE) /\ served'.status = 201)
                 => findOne(users, inserting[k].email) = 0]_vars

====
